---- MODULE Spec2Model ----
(***************************************************************************)
(* Window chrome, dock manager, detached windows and settings round trip   *)
(* of tpQtLib                                                              *)
(* (source/tpQtLib/core/window.py).                                        *)
(*                                                                         *)
(* Qt is the environment: deleteLater() posts a deferred delete that the   *)
(* event loop delivers later, signals are delivered synchronously, and     *)
(* widgets added to a layout become children of the layout's parent        *)
(* widget, while nested layouts become children of the layout.             *)
(***************************************************************************)
EXTENDS Integers, Sequences, FiniteSets, TLC

\* ------------------------------------------------------------------------
\* Bounds of the model
\* ------------------------------------------------------------------------
MaxDocks == 4

DockNames == {"A", "B"}

DockWidgets == {"w1", "w2"}

NoWidget == "None"

MaxWins == 2

MaxCallbacks == 2

MaxThemes == 2

MaxBars == 2

MaxDetached == 2
MaxContainers == 2

\* Close events delivered to one DetachedWindow.
MaxCloses == 2

\* connect() calls made by one window.
MaxSubs == 3

\* Widgets of the parent chains get_top_level_widget is called on.
MaxWidgets == 4

\* Items of all layouts together; every nested layout is an item.
MaxItems == 3
MaxLayouts == MaxItems + 1

DetachedTitles == {"T1", "T2"}

WinNames == {"W1", "W2"}

\* Size of the primary screen (QApplication.desktop().screenGeometry()).
ScreenW == 4

ScreenH == 3

VARIABLES
    docks,          \* QDockWidget children of the window, in children() order
    nextDock,       \* id of the next QDockWidget that add_dock creates
    deletedWidgets, \* widgets destroyed by a delivered deferred delete
    lastAdd,        \* what the last add_dock call did (history of the call)
    hostMain,       \* whether tp.Dcc.get_main_window() returns a window
    wins,           \* the MainWindow instances constructed so far, by id
    nextWin,        \* id of the next MainWindow constructed
    store,          \* Settings Store: settings handle -> key -> value
    cursorScreen,   \* number of the screen the mouse cursor is on
    objs,           \* QObject tree below the window's main_widget
    calls,          \* color setters called by the last reload_stylesheet()
    updated,        \* objects the last reload_stylesheet() called update() on
    reloaded,       \* reload_stylesheet() ran since the tree last changed
    tabBars,        \* the QTabBar children of the window: tab data, current index
    lastTab,        \* the last set_active_dock_tab call and the bars before it
    dwins,          \* the DetachedWindow instances, by id
    qsettings,      \* the application's QSettings(): group -> key -> value
    containers,     \* the DockWindowContainer instances, in creation order
    lastDock,       \* what the last MainWindow.dock() call did
    litems,         \* QLayout items of each layout, in index order
    scheduled,      \* deleteLater() calls of the outermost clear_layout call
    clearStack,     \* layouts of the clear_layout calls in progress, innermost first
    cleared,        \* the outermost clear_layout call: its layout and what it held
    handle,         \* the CollapsibleSplitterHandle of a CollapsibleSplitter
    buttons,        \* its two CollapsibleSplitterButtons
    sizes,          \* QSplitter.sizes() of the splitter
    lastEvent,      \* the last call or event of the splitter and what it did
    project_line,   \* text of NewProjectWidget.project_line
    name_line,      \* text of NewProjectWidget.name_line
    selected_template, \* NewProjectWidget._selected_template
    projects,       \* the projects the templates have created
    lastCreate,     \* the last _on_create call and what it did
    parentOf,       \* QObject.parent() of each widget, NoParent for None
    lastTop         \* the last get_top_level_widget call and its result

dockVars == <<docks, nextDock, deletedWidgets, lastAdd>>

winVars == <<hostMain, wins, nextWin, store, cursorScreen>>

styleVars == <<objs, calls, updated, reloaded>>

tabVars == <<tabBars, lastTab>>

detachedVars == <<dwins, qsettings>>

containerVars == <<containers, lastDock>>

layoutVars == <<litems, scheduled, clearStack, cleared>>

splitterVars == <<handle, buttons, sizes, lastEvent>>

projectVars == <<project_line, name_line, selected_template, projects, lastCreate>>

topVars == <<parentOf, lastTop>>

vars == <<dockVars, winVars, styleVars, tabVars, detachedVars, containerVars, layoutVars, splitterVars, projectVars, topVars>>

Range(q) == {q[i] : i \in DOMAIN q}

\* ------------------------------------------------------------------------
\* Dock manager: MainWindow.add_dock / get_docks
\* ------------------------------------------------------------------------
NoAdd == [name |-> "", widget |-> NoWidget, tabify |-> FALSE, dock |-> 0,
          torn |-> {}, replaced |-> {}, stayed |-> <<>>, tabbedOn |-> 0]

\* get_docks(): every child of the window that is a QDockWidget, in order.  A
\* dock whose deleteLater() has been posted stays a child until delivery.
get_docks == docks

\* for d in docks: if d.windowTitle() == name: d.deleteLater(); d.close()
KeepSameName(ds, name) == ds

RECURSIVE FirstSameName(_, _, _)
FirstSameName(ds, name, i) ==
    IF i > Len(ds) THEN 0
    ELSE IF ds[i].title = name THEN i ELSE FirstSameName(ds, name, i + 1)

TearDownFirstSameName(ds, name) ==
    [i \in DOMAIN ds |->
        IF i = FirstSameName(ds, name, 1)
            THEN [ds[i] EXCEPT !.doomed = TRUE, !.closed = TRUE]
            ELSE ds[i]]

TearDownSameName(ds, name) ==
    [i \in DOMAIN ds |->
        IF ds[i].title = name
            THEN [ds[i] EXCEPT !.doomed = TRUE, !.closed = TRUE]
            ELSE ds[i]]

\* dock.setWidget(widget): the widget is re-parented to the new dock, so a
\* dock that held it before no longer owns it.
Reparent(ds, widget) ==
    [i \in DOMAIN ds |->
        IF widget # NoWidget /\ ds[i].widget = widget
            THEN [ds[i] EXCEPT !.widget = NoWidget]
            ELSE ds[i]]

\* if docks and tabify: self.tabifyDockWidget(docks[-1], dock)
\* `before` is the list get_docks() returned at the start of the call.
TabifyTarget(before, tabify) ==
    IF Len(before) > 0 /\ tabify THEN before[Len(before)].id ELSE 0

AddDock(name, widget, tabify) ==
    /\ nextDock <= MaxDocks
    /\ widget \notin deletedWidgets
    /\ LET before == get_docks
           torn   == TearDownSameName(before, name)
           target == TabifyTarget(before, tabify)
           new    == [id |-> nextDock, title |-> name, widget |-> widget,
                      doomed |-> FALSE, closed |-> FALSE, tabbedOn |-> target]
       IN  /\ docks' = Append(Reparent(torn, widget), new)
           /\ lastAdd' =
                [name |-> name, widget |-> widget, tabify |-> tabify,
                 dock |-> nextDock,
                 torn |-> {before[i].id : i \in {j \in DOMAIN before :
                                                  before[j].title = name}},
                 replaced |-> {before[i].widget : i \in {j \in DOMAIN before :
                                  /\ before[j].title = name
                                  /\ before[j].widget # NoWidget
                                  /\ before[j].widget # widget}},
                 stayed |-> SelectSeq(before,
                                LAMBDA d : ~d.doomed /\ d.title # name),
                 tabbedOn |-> target]
    /\ nextDock' = nextDock + 1
    /\ UNCHANGED <<deletedWidgets, winVars, styleVars, tabVars, detachedVars, containerVars, layoutVars, splitterVars, projectVars, topVars>>

\* The event loop delivers the posted deferred deletes: each doomed dock is
\* destroyed together with the widget it still owns.
DockDeferredDelete ==
    /\ \E i \in DOMAIN docks : docks[i].doomed
    /\ deletedWidgets' = deletedWidgets \cup
            {docks[i].widget : i \in {j \in DOMAIN docks :
                    docks[j].doomed /\ docks[j].widget # NoWidget}}
    /\ docks' = SelectSeq(docks, LAMBDA d : ~d.doomed)
    /\ UNCHANGED <<nextDock, lastAdd, winVars, styleVars, tabVars, detachedVars, containerVars, layoutVars, splitterVars, projectVars, topVars>>

\* ------------------------------------------------------------------------
\* Geometry: QRect as [x, y, w, h]; saveGeometry / restoreGeometry
\* ------------------------------------------------------------------------
Absent == <<>>

\* Geometry of a window that has never been placed.
DefaultGeom == [x |-> 0, y |-> 0, w |-> 2, h |-> 2]

PrimaryScreen == [x |-> 0, y |-> 0, w |-> ScreenW, h |-> ScreenH]

\* A second monitor to the right of the primary one.
SecondScreen == [x |-> ScreenW, y |-> 0, w |-> ScreenW + 1, h |-> ScreenH]

ScreenGeometry(n) == IF n = 1 THEN PrimaryScreen ELSE SecondScreen

\* QRect.center(): ((x1 + x2) / 2, (y1 + y2) / 2)
RectCenter(r) ==
    [x |-> (r.x + (r.x + r.w - 1)) \div 2, y |-> (r.y + (r.y + r.h - 1)) \div 2]

\* QRect.moveCenter(p): the size is kept, the top-left corner is moved.
MoveCenter(r, p) ==
    [r EXCEPT !.x = p.x - ((r.w - 1) \div 2), !.y = p.y - ((r.h - 1) \div 2)]

\* saveGeometry(): the rectangle serialised into a tagged byte array.
SaveGeometry(r) == <<"QtGeometry", r.x, r.y, r.w, r.h>>

CorruptBytes == <<"garbage">>

\* restoreGeometry(bytes): FALSE, and the geometry untouched, unless the bytes
\* are a serialised rectangle.  Any adjustment Qt itself makes to the restored
\* rectangle is left out: set_settings works on the geometry Qt reports.
CanRestore(bytes) == Len(bytes) = 5 /\ bytes[1] = "QtGeometry"

RestoreGeometry(old, bytes) ==
    IF CanRestore(bytes)
        THEN [x |-> bytes[2], y |-> bytes[3], w |-> bytes[4], h |-> bytes[5]]
        ELSE old

\* saveState(): the dock/toolbar layout, opaque here.
SaveState(w) == <<"QtState">>

\* ------------------------------------------------------------------------
\* Colors: strings "rgb(r, g, b)" / "rgb(r, g, b, a)" as tuples, Color values
\* as records
\* ------------------------------------------------------------------------
DefaultAccent == <<0, 175, 240, 255>>

DefaultBackground == <<60, 64, 79, 255>>

\* Color.from_string: the alpha channel defaults to 255.
ColorFromString(s) ==
    [r |-> s[1], g |-> s[2], b |-> s[3], a |-> IF Len(s) >= 4 THEN s[4] ELSE 255]

\* Color.to_string: always the four-channel form.
ColorToString(c) == <<c.r, c.g, c.b, c.a>>

\* ------------------------------------------------------------------------
\* Settings Store (QtSettings.getw / setw / get_default_value)
\* ------------------------------------------------------------------------
\* geometryBy / themeBy: the name of the window that wrote the geometry /
\* theme keys last ("" when nobody did).
EmptyStore ==
    [geometry |-> Absent, windowState |-> Absent,
     accentColor |-> Absent, backgroundColor |-> Absent,
     geometryBy |-> "", themeBy |-> ""]

\* The settings handles: the settings file of each window name
\* (get_settings_file), and one handle created by the caller and passed as
\* the 'settings' option.
Handles == WinNames \cup {"ext"}

\* **kwargs of MainWindow.__init__: "" / 0 stand for an option that is not
\* passed.  dip is the key __init__ reads the scale from.
NoKwargs == [settings |-> "", dpi |-> 0, dip |-> 0]

\* getw(key, default): the stored value, or the default when the key is missing.
Getw(st, key, default) == IF st[key] = Absent THEN default ELSE st[key]

\* setw(key, value)
Setw(st, key, value) == [st EXCEPT ![key] = value]

\* get_default_value(key, group): no default is registered for a window.
GetDefaultValue(key, group) == Absent

\* ------------------------------------------------------------------------
\* MainWindow
\* ------------------------------------------------------------------------
NoSeen == [saved |-> FALSE, callbacks |-> 0, had |-> 0]

\* The last remove_callbacks() run of a window: the list it started with and
\* the callbacks its loop took out of the list one by one.
NoRemoval == [had |-> <<>>, removed |-> {}]

\* The settings dialog of a window: status "none", "open", "accepted" or
\* "dismissed", and the theme colors the window and the store held when the
\* dialog was opened.
NoDialog ==
    [status |-> "none", accent |-> Absent, background |-> Absent,
     stAccent |-> Absent, stBackground |-> Absent]

\* Theme instances are told apart by <<w, k>>: the k-th Theme() created by
\* window w; <<0, j>> are themes created by the caller, <<0, 0>> is None.
NoTheme == <<0, 0>>

CallerThemes == {<<0, 1>>, <<0, 2>>}

\* The last call of theme(), set_theme(), set_theme_settings(), set_dpi() or
\* _settings_validator() on a window: the theme returned or passed, the dpi
\* passed, the color strings passed.
NoOp == [op |-> "", theme |-> NoTheme, dpi |-> 0,
         accent |-> Absent, background |-> Absent, reloads |-> 0]

NoWin ==
    [state |-> "none", name |-> "", hosted |-> FALSE, geom |-> DefaultGeom,
     accent |-> ColorFromString(DefaultAccent),
     background |-> ColorFromString(DefaultBackground),
     callbacks |-> <<>>, closeLog |-> <<>>, seen |-> NoSeen, loaded |-> FALSE,
     dialog |-> NoDialog, settings |-> "", dpi |-> 1, kwargs |-> NoKwargs,
     themeObj |-> NoTheme, themeSeq |-> 0, subs |-> <<>>, lastOp |-> NoOp,
     removal |-> NoRemoval]

DeletedWin == [NoWin EXCEPT !.state = "deleted"]

\* default_settings()["theme"]
default_settings ==
    [accentColor |-> DefaultAccent, backgroundColor |-> DefaultBackground]

\* save_settings(): settings.setw('geometry', self.saveGeometry());
\* settings.setw('windowState', self.saveState()).  self._settings is always
\* set by __init__, so the early return is never taken.
save_settings(st, win) ==
    [Setw(Setw(st, "geometry", SaveGeometry(win.geom)),
          "windowState", SaveState(win))
        EXCEPT !.geometryBy = win.name]

\* remove_callbacks(): the loop removes callbacks from the list it iterates
\* over, then the list is replaced by an empty one.
remove_callbacks(cbs) == <<>>

\* for c in self._callbacks: self._callbacks.remove(c)
\* The iterator keeps an index into the list that remove() shortens: after
\* the element at index i is removed the next one visited is the one that
\* now sits at i + 1.  list.remove takes out the first equal element.
RemoveFirst(list, c) ==
    LET k == CHOOSE i \in DOMAIN list :
                list[i] = c /\ \A j \in 1..(i - 1) : list[j] # c
    IN  [i \in 1..(Len(list) - 1) |-> IF i < k THEN list[i] ELSE list[i + 1]]

RECURSIVE RemoveLoop(_, _, _)
RemoveLoop(list, i, removed) ==
    IF i > Len(list) THEN removed
    ELSE RemoveLoop(RemoveFirst(list, list[i]), i + 1, removed \cup {list[i]})

\* closeEvent(): the four statements, in source order.
CloseStepsEmitFirst ==
    <<"windowClosed", "save_settings", "remove_callbacks", "deleteLater">>
CloseSteps == <<"save_settings", "remove_callbacks", "windowClosed", "deleteLater">>

\* One statement of closeEvent on window w; c = [wins, store, fault].
\* Observers of windowClosed run inside emit() and see the state of that
\* moment.  fault = "raise": the store's setw raises inside save_settings,
\* which has no handler, and neither has closeEvent.
ApplyCloseStep(step, c, w) ==
    LET win == c.wins[w]
        c1  == [c EXCEPT !.wins[w].closeLog = Append(@, step)]
    IN  CASE step = "save_settings" ->
                IF c.fault = "raise"
                    THEN [c1 EXCEPT !.wins[w].closeLog = Append(@, "raise")]
                    ELSE [c1 EXCEPT !.store[win.settings] = save_settings(@, win)]
          [] step = "remove_callbacks" ->
                [c1 EXCEPT !.wins[w].callbacks = remove_callbacks(@),
                           !.wins[w].removal =
                                [had |-> win.callbacks,
                                 removed |-> RemoveLoop(win.callbacks, 1, {})]]
          [] step = "windowClosed" ->
                [c1 EXCEPT !.wins[w].seen =
                              [saved |-> c.store[win.settings].geometry
                                            = SaveGeometry(win.geom),
                               callbacks |-> Len(win.callbacks),
                               had |-> win.seen.had]]
          [] step = "deleteLater" ->
                [c1 EXCEPT !.wins[w].state = "doomed"]

\* The exception left closeEvent: the statements after the raising one did
\* not run.
Raised(win) == win.closeLog # <<>> /\ win.closeLog[Len(win.closeLog)] = "raise"

RECURSIVE RunCloseSteps(_, _, _)
RunCloseSteps(steps, c, w) ==
    IF steps = <<>> \/ Raised(c.wins[w]) THEN c
    ELSE RunCloseSteps(Tail(steps), ApplyCloseStep(Head(steps), c, w), w)

closeEvent(c, w) ==
    RunCloseSteps(CloseSteps,
        [c EXCEPT !.wins[w].closeLog = <<>>,
                  !.wins[w].seen = [NoSeen EXCEPT !.had = Len(c.wins[w].callbacks)]],
        w)

\* A window object that exists: closed ones stay until the deferred delete.
Exists(win) == win.state \in {"live", "doomed", "raised"}

\* tp.Dcc.get_main_window().findChildren(QWidget, name): the windows of that
\* name below the host main window, none when there is no host main window.
FindChildren(ws, name) ==
    IF hostMain
        THEN {w \in DOMAIN ws : Exists(ws[w]) /\ ws[w].hosted /\ ws[w].name = name}
        ELSE {}

\* for w in wins: w.close(); w.deleteLater()
RECURSIVE CloseAll(_, _, _)
CloseAll(c, found, w) ==
    IF w > MaxWins THEN c
    ELSE CloseAll(IF w \in found THEN closeEvent(c, w) ELSE c, found, w + 1)

\* center(width, height): the frame geometry, resized when width / height are
\* not zero, is centred on the screen under the cursor.
Center(geom, width, height, cursor) ==
    MoveCenter([geom EXCEPT !.w = IF width # 0 THEN width ELSE @,
                            !.h = IF height # 0 THEN height ELSE @],
               RectCenter(ScreenGeometry(cursor)))

\* if x <= 0 or y <= 0 or x >= screen_width or y >= screen_height
OutsideTestNoUpper(g) == g.x <= 0 \/ g.y <= 0
OutsideTest(g) ==
    g.x <= 0 \/ g.y <= 0 \/ g.x >= PrimaryScreen.w \/ g.y >= PrimaryScreen.h

\* set_settings, geometry part: restoreGeometry, then re-centre.
LoadGeometry(old, geometry, cursor) ==
    IF geometry # Absent
        THEN LET g == RestoreGeometry(old, geometry)
             IN  IF OutsideTest(g) THEN Center(g, g.w, g.h, cursor) ELSE g
        ELSE old

\* self.settings().getw('theme/<key>') or def_theme_settings[<key>]
ThemeSettingCoupled(st, key) ==
    IF st.accentColor # Absent /\ st.backgroundColor # Absent THEN st[key]
    ELSE default_settings[key]
ThemeSetting(st, key) ==
    IF Getw(st, key, Absent) # Absent THEN Getw(st, key, Absent)
    ELSE default_settings[key]

\* theme.Theme(): a new instance, created by window w.
NewTheme(win, w) ==
    [win EXCEPT !.themeSeq = @ + 1, !.themeObj = <<w, win.themeSeq + 1>>]

\* theme(): if not self._theme: self._theme = theme.Theme(); the window after
\* the call, its themeObj is the instance returned.
themeAlwaysNew(win, w) == NewTheme(win, w)
theme(win, w) == IF win.themeObj = NoTheme THEN NewTheme(win, w) ELSE win

\* set_theme(t): self._theme = t; t.updated.connect(self.reload_stylesheet);
\* reload_stylesheet().  accent / background are the colors t holds.  subs
\* holds one entry per connect() call made, in call order: nothing is ever
\* disconnected, and a signal keeps every connection made to it.
set_theme(win, t, accent, background) ==
    [win EXCEPT !.themeObj = t, !.accent = accent, !.background = background,
                !.subs = Append(@, t)]

\* The connections of the window's reload_stylesheet to t.updated: the
\* number of reload_stylesheet() runs one t.updated.emit() makes.
Connections(win, t) == Cardinality({i \in DOMAIN win.subs : win.subs[i] = t})

\* set_theme_settings(settings): a new Theme with the settings, then set_theme.
set_theme_settings(win, w, settings) ==
    LET made == NewTheme(win, w)
    IN  set_theme(made, made.themeObj,
                  ColorFromString(settings.accentColor),
                  ColorFromString(settings.backgroundColor))

\* set_settings(): geometry, window state and theme read from the store.
set_settings(win, w, st, geometry, cursor) ==
    set_theme_settings(
        [win EXCEPT !.geom = LoadGeometry(win.geom, geometry, cursor),
                    !.loaded = TRUE],
        w,
        [accentColor |-> ThemeSetting(st, "accentColor"),
         backgroundColor |-> ThemeSetting(st, "backgroundColor")])

\* MainWindow.__init__(name, parent, auto_load=...).  hosted: the new window is
\* a descendant of the host main window (parent None, or a parent below it).
\* fault: what reading the store does ("ok", "raise" or "corrupt").
\* kwargs: the options 'settings', 'dpi' and 'dip'.
Construct(name, underHost, autoLoad, fault, kwargs) ==
    /\ nextWin <= MaxWins
    /\ LET c     == CloseAll([wins |-> wins, store |-> store, fault |-> "ok"],
                             FindChildren(wins, name), 1)
           fresh == [NoWin EXCEPT
                        !.state = "live", !.name = name,
                        !.hosted = hostMain /\ underHost,
                        !.kwargs = kwargs,
                        !.dpi = IF kwargs.dip # 0 THEN kwargs.dip ELSE 1,
                        !.settings = IF kwargs.settings # ""
                                        THEN kwargs.settings ELSE name]
           st    == c.store[fresh.settings]
           geometry ==
                IF fault = "corrupt" THEN CorruptBytes
                ELSE Getw(st, "geometry", GetDefaultValue("geometry", name))
           built ==
                IF ~autoLoad THEN fresh
                ELSE IF fault = "raise" THEN [fresh EXCEPT !.state = "raised"]
                ELSE set_settings(fresh, nextWin, st, geometry, cursorScreen)
       IN  /\ wins' = [c.wins EXCEPT ![nextWin] = built]
           /\ store' = c.store
    /\ nextWin' = nextWin + 1
    /\ UNCHANGED <<hostMain, cursorScreen, dockVars, styleVars, tabVars, detachedVars, containerVars, layoutVars, splitterVars, projectVars, topVars>>

\* The user closes the window: Qt delivers closeEvent.  fault: what writing
\* the store does ("ok" or "raise").
Close(w, fault) ==
    /\ wins[w].state = "live"
    /\ LET c == closeEvent([wins |-> wins, store |-> store, fault |-> fault], w)
       IN  wins' = c.wins /\ store' = c.store
    /\ UNCHANGED <<hostMain, nextWin, cursorScreen, dockVars, styleVars, tabVars, detachedVars, containerVars, layoutVars, splitterVars, projectVars, topVars>>

\* The user moves or resizes the window.
MoveResize(w, rect) ==
    /\ wins[w].state = "live"
    /\ wins[w].geom # rect
    /\ wins' = [wins EXCEPT ![w].geom = rect]
    /\ UNCHANGED <<hostMain, nextWin, store, cursorScreen, dockVars, styleVars, tabVars, detachedVars, containerVars, layoutVars, splitterVars, projectVars, topVars>>

\* An explicit save_settings() call.
SaveSettings(w) ==
    /\ wins[w].state = "live"
    /\ store' = [store EXCEPT ![wins[w].settings] = save_settings(@, wins[w])]
    /\ UNCHANGED <<hostMain, wins, nextWin, cursorScreen, dockVars, styleVars, tabVars, detachedVars, containerVars, layoutVars, splitterVars, projectVars, topVars>>

\* add_callback(callback_wrapper) with a tp.Callback
\* isCallback FALSE: the object is no tp.Callback, an error is logged and
\* the call returns.
AddCallback(w, isCallback) ==
    /\ wins[w].state = "live"
    /\ Len(wins[w].callbacks) < MaxCallbacks
    /\ wins' = [wins EXCEPT ![w] =
            [@ EXCEPT
                !.callbacks = IF isCallback THEN Append(@, Len(@) + 1) ELSE @,
                !.lastOp = [NoOp EXCEPT !.op = IF isCallback THEN "add_callback"
                                               ELSE "add_callback_rejected"]]]
    /\ UNCHANGED <<hostMain, nextWin, store, cursorScreen, dockVars, styleVars, tabVars, detachedVars, containerVars, layoutVars, splitterVars, projectVars, topVars>>

\* _on_show_settings_dialog(): the form shows the theme's current colors and
\* is wired to _settings_validator and _settings_accepted.
ShowSettingsDialog(w) ==
    /\ wins[w].state = "live"
    /\ wins[w].dialog.status # "open"
    /\ wins' = [wins EXCEPT ![w] = [theme(@, w) EXCEPT !.dialog =
            [status |-> "open",
             accent |-> ColorToString(wins[w].accent),
             background |-> ColorToString(wins[w].background),
             stAccent |-> store[wins[w].settings].accentColor,
             stBackground |-> store[wins[w].settings].backgroundColor]]]
    /\ UNCHANGED <<hostMain, nextWin, store, cursorScreen, dockVars, styleVars, tabVars, detachedVars, containerVars, layoutVars, splitterVars, projectVars, topVars>>

\* The user leaves the dialog without accepting: the form has no callback
\* for that, so nothing of the window runs.
DismissDialog(w) ==
    /\ wins[w].state = "live"
    /\ wins[w].dialog.status = "open"
    /\ wins' = [wins EXCEPT ![w].dialog.status = "dismissed"]
    /\ UNCHANGED <<hostMain, nextWin, store, cursorScreen, dockVars, styleVars, tabVars, detachedVars, containerVars, layoutVars, splitterVars, projectVars, topVars>>

\* _settings_validator(accentColor=accent, backgroundColor=background): each
\* color that is passed and differs from the theme's to_string() is set.
ValidatorAccentOnly(win, w, accent, background) ==
    [theme(win, w) EXCEPT
        !.accent =
            IF accent # Absent /\ ColorToString(@) # accent
                THEN ColorFromString(accent) ELSE @]
settings_validator(win, w, accent, background) ==
    [theme(win, w) EXCEPT
        !.accent =
            IF accent # Absent /\ ColorToString(@) # accent
                THEN ColorFromString(accent) ELSE @,
        !.background =
            IF background # Absent /\ ColorToString(@) # background
                THEN ColorFromString(background) ELSE @]

\* _settings_validator, called by the open dialog when a field changes.
SettingsValidator(w, accent, background) ==
    /\ wins[w].state = "live"
    /\ wins[w].dialog.status = "open"
    /\ wins' = [wins EXCEPT ![w] =
            [settings_validator(@, w, accent, background)
                EXCEPT !.lastOp = [NoOp EXCEPT !.op = "settings_validator",
                                               !.accent = accent,
                                               !.background = background]]]
    /\ wins'[w] # wins[w]
    /\ UNCHANGED <<hostMain, nextWin, store, cursorScreen, dockVars, styleVars, tabVars, detachedVars, containerVars, layoutVars, splitterVars, projectVars, topVars>>

\* _settings_accepted(): the theme's colors are written to the store.
SettingsAccepted(w) ==
    /\ wins[w].state = "live"
    /\ wins[w].dialog.status = "open"
    /\ store' = [store EXCEPT ![wins[w].settings] =
            [Setw(Setw(@, "accentColor", ColorToString(wins[w].accent)),
                  "backgroundColor", ColorToString(wins[w].background))
                EXCEPT !.themeBy = wins[w].name]]
    /\ wins' = [wins EXCEPT ![w] = [theme(@, w) EXCEPT !.dialog.status = "accepted"]]
    /\ UNCHANGED <<hostMain, nextWin, cursorScreen, dockVars, styleVars, tabVars, detachedVars, containerVars, layoutVars, splitterVars, projectVars, topVars>>

\* A caller reads theme().
ThemeAccess(w) ==
    /\ wins[w].state = "live"
    /\ LET got == theme(wins[w], w)
       IN  wins' = [wins EXCEPT ![w] =
                [got EXCEPT !.lastOp = [NoOp EXCEPT !.op = "theme",
                                                    !.theme = got.themeObj]]]
    /\ UNCHANGED <<hostMain, nextWin, store, cursorScreen, dockVars, styleVars, tabVars, detachedVars, containerVars, layoutVars, splitterVars, projectVars, topVars>>

\* A caller passes a theme of its own to set_theme(t).
SetTheme(w, t) ==
    /\ wins[w].state = "live"
    /\ Len(wins[w].subs) < MaxSubs
    /\ wins' = [wins EXCEPT ![w] =
            [set_theme(@, t, NoWin.accent, NoWin.background)
                EXCEPT !.lastOp = [NoOp EXCEPT !.op = "set_theme", !.theme = t]]]
    /\ UNCHANGED <<hostMain, nextWin, store, cursorScreen, dockVars, styleVars, tabVars, detachedVars, containerVars, layoutVars, splitterVars, projectVars, topVars>>

\* Theme t emits updated: every connection made to it runs its slot.  The
\* themes that can emit are the ones somebody holds: the window's current
\* theme and the themes callers made.
ThemeUpdated(w, t) ==
    /\ wins[w].state = "live"
    /\ t # NoTheme
    /\ t \in CallerThemes \cup {wins[w].themeObj}
    /\ wins' = [wins EXCEPT ![w].lastOp =
            [NoOp EXCEPT !.op = "theme_updated", !.theme = t,
                         !.reloads = Connections(wins[w], t)]]
    /\ UNCHANGED <<hostMain, nextWin, store, cursorScreen, dockVars, styleVars, tabVars, detachedVars, containerVars, layoutVars, splitterVars, projectVars, topVars>>

\* A caller passes a settings dict to set_theme_settings(settings).
SetThemeSettings(w, settings) ==
    /\ wins[w].state = "live"
    /\ wins[w].themeSeq < MaxThemes
    /\ wins' = [wins EXCEPT ![w] =
            [set_theme_settings(@, w, settings)
                EXCEPT !.lastOp = [NoOp EXCEPT !.op = "set_theme_settings"]]]
    /\ UNCHANGED <<hostMain, nextWin, store, cursorScreen, dockVars, styleVars, tabVars, detachedVars, containerVars, layoutVars, splitterVars, projectVars, topVars>>

\* set_dpi(dpi): self._dpi = dpi
SetDpi(w, d) ==
    /\ wins[w].state = "live"
    /\ wins' = [wins EXCEPT ![w] =
            [@ EXCEPT !.dpi = d,
                      !.lastOp = [NoOp EXCEPT !.op = "set_dpi", !.dpi = d]]]
    /\ UNCHANGED <<hostMain, nextWin, store, cursorScreen, dockVars, styleVars, tabVars, detachedVars, containerVars, layoutVars, splitterVars, projectVars, topVars>>

\* A caller runs remove_callbacks().
RemoveCallbacks(w) ==
    /\ wins[w].state = "live"
    /\ wins' = [wins EXCEPT ![w] =
            [@ EXCEPT
                !.callbacks = remove_callbacks(@),
                !.removal = [had |-> wins[w].callbacks,
                             removed |-> RemoveLoop(wins[w].callbacks, 1, {})],
                !.lastOp = [NoOp EXCEPT !.op = "remove_callbacks"]]]
    /\ UNCHANGED <<hostMain, nextWin, store, cursorScreen, dockVars, styleVars, tabVars, detachedVars, containerVars, layoutVars, splitterVars, projectVars, topVars>>

\* The event loop delivers the deferred deletes of closed windows.
WinDeferredDelete ==
    /\ \E w \in DOMAIN wins : wins[w].state = "doomed"
    /\ wins' = [w \in DOMAIN wins |->
                    IF wins[w].state = "doomed" THEN DeletedWin ELSE wins[w]]
    /\ UNCHANGED <<hostMain, nextWin, store, cursorScreen, dockVars, styleVars, tabVars, detachedVars, containerVars, layoutVars, splitterVars, projectVars, topVars>>

\* The user moves the mouse cursor to another screen.
MoveCursor(s) ==
    /\ cursorScreen # s
    /\ cursorScreen' = s
    /\ UNCHANGED <<hostMain, wins, nextWin, store, dockVars, styleVars, tabVars, detachedVars, containerVars, layoutVars, splitterVars, projectVars, topVars>>

\* ------------------------------------------------------------------------
\* reload_stylesheet: the QObject tree of the window and the color setters
\* ------------------------------------------------------------------------
ObjPool == {"o1", "o2", "o3"}

AllObjs == {"main_widget", "main_layout"} \cup ObjPool

Setters ==
    {"set_text_color", "set_text_selected_color", "set_background_color",
     "set_background_hover_color", "set_background_selected_color"}

\* The capability sets tried for a new object.
CapChoices ==
    {{}, {"set_background_color"}, {"set_text_color", "set_text_selected_color"},
     Setters}

\* The theme option each setter receives.
SetterOption(s) ==
    CASE s = "set_text_color" -> "ITEM_TEXT_COLOR"
      [] s = "set_text_selected_color" -> "ITEM_TEXT_SELECTED_COLOR"
      [] s = "set_background_color" -> "ITEM_BACKGROUND_COLOR"
      [] s = "set_background_hover_color" -> "ITEM_BACKGROUND_HOVER_COLOR"
      [] s = "set_background_selected_color" -> "ITEM_BACKGROUND_SELECTED_COLOR"

NoObj == [kind |-> "none", parent |-> "none", caps |-> {}]

\* ui(): self.main_widget = QWidget(); self.main_widget.setLayout(self.main_layout)
InitObjs ==
    [o \in AllObjs |->
        CASE o = "main_widget" -> [kind |-> "widget", parent |-> "window", caps |-> {}]
          [] o = "main_layout" -> [kind |-> "layout", parent |-> "main_widget", caps |-> {}]
          [] OTHER -> NoObj]

\* QLayout.parentWidget(): the widget the layout, or the layout it is nested
\* in, is installed on.
RECURSIVE ParentWidget(_, _)
ParentWidget(tree, l) ==
    IF tree[tree[l].parent].kind = "widget" THEN tree[l].parent
    ELSE ParentWidget(tree, tree[l].parent)

\* o is below root in the QObject tree.
RECURSIVE IsBelow(_, _, _)
IsBelow(tree, o, root) ==
    IF tree[o].parent = root THEN TRUE
    ELSE IF tree[o].parent \notin AllObjs THEN FALSE
    ELSE IsBelow(tree, tree[o].parent, root)

\* QObject.findChildren(QObject): every object below root.
FindChildrenOf(tree, root) ==
    {o \in AllObjs : tree[o].kind # "none" /\ IsBelow(tree, o, root)}

\* all_widgets = self.main_layout.findChildren(QObject)
all_widgets(tree) == FindChildrenOf(tree, "main_layout")

\* layout.addWidget(w): Qt re-parents the widget to the layout's parent widget.
AddWidget(o, l, caps) ==
    /\ objs[o].kind = "none"
    /\ objs[l].kind = "layout"
    /\ objs' = [objs EXCEPT ![o] =
            [kind |-> "widget", parent |-> ParentWidget(objs, l), caps |-> caps]]
    /\ reloaded' = FALSE
    /\ UNCHANGED <<calls, updated, dockVars, winVars, tabVars, detachedVars, containerVars, layoutVars, splitterVars, projectVars, topVars>>

\* layout.addLayout(l2): the nested layout becomes a child of the layout.
AddLayout(o, l, caps) ==
    /\ objs[o].kind = "none"
    /\ objs[l].kind = "layout"
    /\ objs' = [objs EXCEPT ![o] = [kind |-> "layout", parent |-> l, caps |-> caps]]
    /\ reloaded' = FALSE
    /\ UNCHANGED <<calls, updated, dockVars, winVars, tabVars, detachedVars, containerVars, layoutVars, splitterVars, projectVars, topVars>>

\* widget.setLayout(l2) on a widget that has no layout yet.
SetLayout(o, w) ==
    /\ objs[o].kind = "none"
    /\ objs[w].kind = "widget"
    /\ \A l \in AllObjs : ~(objs[l].kind = "layout" /\ objs[l].parent = w)
    /\ objs' = [objs EXCEPT ![o] = [kind |-> "layout", parent |-> w, caps |-> {}]]
    /\ reloaded' = FALSE
    /\ UNCHANGED <<calls, updated, dockVars, winVars, tabVars, detachedVars, containerVars, layoutVars, splitterVars, projectVars, topVars>>

\* reload_stylesheet(): for w in all_widgets, each setter w has is called with
\* its color, and w.update() when one was found.
ReloadStylesheet ==
    /\ calls' = [o \in AllObjs |->
            IF o \in all_widgets(objs)
                THEN {<<s, SetterOption(s)>> : s \in objs[o].caps \cap Setters}
                ELSE {}]
    /\ updated' = {o \in all_widgets(objs) : objs[o].caps \cap Setters # {}}
    /\ reloaded' = TRUE
    /\ UNCHANGED <<objs, dockVars, winVars, tabVars, detachedVars, containerVars, layoutVars, splitterVars, projectVars, topVars>>

\* ------------------------------------------------------------------------
\* set_active_dock_tab: the tab bars Qt keeps for tabified docks
\* ------------------------------------------------------------------------
Bars == 1..MaxBars

\* Docks are the ids 1..MaxDocks; tab i of a bar (counted from 0, as Qt does)
\* carries the pointer of its dock as tab data.  current is -1 on an empty bar.
NoBar == [tabs |-> <<>>, current |-> -1]

NoTab == [dock |-> 0, before |-> [b \in Bars |-> NoBar]]

tabData(bar, i) == bar.tabs[i + 1]

\* for i in range(count): if to_qt_object(bar.tabData(i)) == dock_widget:
\*     bar.setCurrentIndex(i)
RECURSIVE SetCurrentOnMatch(_, _, _)
SetCurrentOnMatch(bar, dock, i) ==
    IF i >= Len(bar.tabs) THEN bar
    ELSE SetCurrentOnMatch(
            IF tabData(bar, i) = dock THEN [bar EXCEPT !.current = i] ELSE bar,
            dock, i + 1)

\* for bar in self.findChildren(QTabBar): ...
SetCurrentUnlessMatch(bars, dock) ==
    [b \in DOMAIN bars |->
        IF \E i \in 0..(Len(bars[b].tabs) - 1) : tabData(bars[b], i) = dock
            THEN SetCurrentOnMatch(bars[b], dock, 0)
            ELSE [bars[b] EXCEPT !.current = IF bars[b].tabs = <<>> THEN -1 ELSE 0]]
set_active_dock_tab(bars, dock) ==
    [b \in DOMAIN bars |-> SetCurrentOnMatch(bars[b], dock, 0)]

SetActiveDockTab(dock) ==
    /\ tabBars' = set_active_dock_tab(tabBars, dock)
    /\ lastTab' = [dock |-> dock, before |-> tabBars]
    /\ UNCHANGED <<dockVars, winVars, styleVars, detachedVars, containerVars, layoutVars, splitterVars, projectVars, topVars>>

\* tabifyDockWidget puts a dock that is in no tab bar into bar b: Qt appends
\* a tab, which becomes the current one when the bar was empty.
Tabify(dock, b) ==
    /\ \A c \in Bars : dock \notin Range(tabBars[c].tabs)
    /\ tabBars' = [tabBars EXCEPT
            ![b] = [tabs |-> Append(@.tabs, dock),
                    current |-> IF @.tabs = <<>> THEN 0 ELSE @.current]]
    /\ lastTab' = NoTab
    /\ UNCHANGED <<dockVars, winVars, styleVars, detachedVars, containerVars, layoutVars, splitterVars, projectVars, topVars>>

\* The user clicks tab i of bar b.
SelectTab(b, i) ==
    /\ i < Len(tabBars[b].tabs)
    /\ tabBars[b].current # i
    /\ tabBars' = [tabBars EXCEPT ![b].current = i]
    /\ lastTab' = NoTab
    /\ UNCHANGED <<dockVars, winVars, styleVars, detachedVars, containerVars, layoutVars, splitterVars, projectVars, topVars>>

\* ------------------------------------------------------------------------
\* DetachedWindow and its SettingGroup
\* ------------------------------------------------------------------------
\* A value held by QSettings; Absent is a key that was never set.
QVariant(v) == <<v>>

NoGroup == [detached |-> Absent, geometry |-> Absent, windowstate |-> Absent]

\* emitted: the arguments of the windowClosed emissions of the window.
NoDetached ==
    [state |-> "none", title |-> "", geom |-> DefaultGeom, emitted |-> <<>>]

\* SettingGroup.__enter__: global_group is '', so the group is the name the
\* SettingGroup was made with, the window's title.
SettingGroupShared(title) == CHOOSE t \in DetachedTitles : TRUE
SettingGroup(title) == title

\* DetachedWindow.save_settings(detached): the three keys of the group.
detached_save_settings(qs, win, detached) ==
    [qs EXCEPT ![SettingGroup(win.title)] =
        [detached |-> QVariant(detached),
         geometry |-> SaveGeometry(win.geom),
         windowstate |-> SaveState(win)]]

\* DetachedWindow(title, parent): load_basic_window_settings restores the
\* geometry stored in the group, '' when there is none.
DetachedConstruct(w, title) ==
    /\ dwins[w].state \in {"none", "deleted"}
    /\ dwins' = [dwins EXCEPT ![w] =
            [state |-> "live", title |-> title,
             geom |-> RestoreGeometry(DefaultGeom,
                            qsettings[SettingGroup(title)].geometry),
             emitted |-> <<>>]]
    /\ UNCHANGED <<qsettings, dockVars, winVars, styleVars, tabVars, containerVars, layoutVars, splitterVars, projectVars, topVars>>

\* moveEvent: the window is at a new position; save_settings().  The handler
\* does not look at whether the window was closed.
moveEvent(w, x, y) ==
    /\ <<dwins[w].geom.x, dwins[w].geom.y>> # <<x, y>>
    /\ dwins' = [dwins EXCEPT ![w].geom.x = x, ![w].geom.y = y]
    /\ qsettings' = detached_save_settings(qsettings, dwins'[w], TRUE)
    /\ UNCHANGED <<dockVars, winVars, styleVars, tabVars, containerVars, layoutVars, splitterVars, projectVars, topVars>>

MoveEvent(w, x, y) ==
    /\ dwins[w].state = "live"
    /\ moveEvent(w, x, y)

\* resizeEvent: the window has a new size; save_settings().
resizeEvent(w, width, height) ==
    /\ <<dwins[w].geom.w, dwins[w].geom.h>> # <<width, height>>
    /\ dwins' = [dwins EXCEPT ![w].geom.w = width, ![w].geom.h = height]
    /\ qsettings' = detached_save_settings(qsettings, dwins'[w], TRUE)
    /\ UNCHANGED <<dockVars, winVars, styleVars, tabVars, containerVars, layoutVars, splitterVars, projectVars, topVars>>

ResizeEvent(w, width, height) ==
    /\ dwins[w].state = "live"
    /\ resizeEvent(w, width, height)

\* DetachedWindow.closeEvent: 'detached' False, windowClosed.emit(self),
\* deleteLater.
detachedCloseEvent(w) ==
    /\ dwins' = [dwins EXCEPT ![w].state = "doomed",
                              ![w].emitted = Append(@, w)]
    /\ qsettings' = [qsettings EXCEPT
            ![SettingGroup(dwins[w].title)].detached = QVariant(FALSE)]
    /\ UNCHANGED <<dockVars, winVars, styleVars, tabVars, containerVars, layoutVars, splitterVars, projectVars, topVars>>

DetachedClose(w) ==
    /\ dwins[w].state = "live"
    /\ detachedCloseEvent(w)

\* Events Qt delivers to a window between its closeEvent and its deferred
\* delete: the window object exists and its handlers run as before.
LateMoveEvent(w, x, y) ==
    /\ dwins[w].state = "doomed"
    /\ moveEvent(w, x, y)

LateResizeEvent(w, width, height) ==
    /\ dwins[w].state = "doomed"
    /\ resizeEvent(w, width, height)

LateClose(w) ==
    /\ dwins[w].state = "doomed"
    /\ Len(dwins[w].emitted) < MaxCloses
    /\ detachedCloseEvent(w)

\* The event loop delivers the deferred deletes of closed detached windows.
DetachedDeferredDelete ==
    /\ \E w \in DOMAIN dwins : dwins[w].state = "doomed"
    /\ dwins' = [w \in DOMAIN dwins |->
            IF dwins[w].state = "doomed"
                THEN [NoDetached EXCEPT !.state = "deleted"] ELSE dwins[w]]
    /\ UNCHANGED <<qsettings, dockVars, winVars, styleVars, tabVars, containerVars, layoutVars, splitterVars, projectVars, topVars>>

\* ------------------------------------------------------------------------
\* MainWindow.dock and DockWindowContainer (window.py 33-44, 408-416)
\* ------------------------------------------------------------------------
\* setWindowTitle(kwargs.pop('title', 'Maya Window')): no caller of the model
\* passes a title.
windowTitle(win) == "Maya Window"

\* The attributes a constructed MainWindow has that dock() reads: ui() sets
\* _main_title, dock() sets _dock_widget; the class defines no property and
\* no __getattr__.
MainWindowAttrs == {"_main_title", "_dock_widget", "_show_dragger"}

\* The attribute dock() reads to hide the title dragger.
DockTitleAttr == "main_title"

NoContainer ==
    [state |-> "open", title |-> "", widget |-> 0, area |-> "",
     log |-> <<>>,
     seen |-> [widget |-> 0, closeLog |-> <<>>, doomed |-> FALSE,
               saved |-> FALSE, callbacks |-> 0]]

NoDock ==
    [win |-> 0, container |-> 0, added |-> FALSE, raised |-> "",
     titleVisible |-> TRUE]

\* QDockWidget.widget(): the contained window while the object exists, none
\* once its deferred delete was delivered.
ContainedWidget(ws, dc) ==
    IF dc.widget # 0 /\ Exists(ws[dc.widget]) THEN dc.widget ELSE 0

\* dock(): the container is created and given the window, then added to the
\* host main window's left area, then the title dragger is hidden.  Without
\* a host main window get_main_window() is None and addDockWidget raises;
\* with one, the read of self.main_title raises when the window has no such
\* attribute.  The statements before the raising one have run.
Dock(w) ==
    /\ wins[w].state = "live"
    /\ Len(containers) < MaxContainers
    /\ \A i \in DOMAIN containers : containers[i].widget # w
    /\ LET dc     == [NoContainer EXCEPT !.title = windowTitle(wins[w]),
                                         !.widget = w]
           added  == hostMain
           hasAttr == DockTitleAttr \in MainWindowAttrs
           raised == IF ~added THEN "addDockWidget"
                     ELSE IF ~hasAttr THEN "main_title" ELSE ""
       IN  /\ containers' =
                Append(containers,
                       [dc EXCEPT !.area = IF added THEN "left" ELSE ""])
           /\ wins' = [wins EXCEPT ![w].hosted = added]
           /\ lastDock' =
                [win |-> w, container |-> Len(containers) + 1,
                 added |-> added, raised |-> raised,
                 titleVisible |-> IF raised = "" THEN FALSE ELSE TRUE]
    /\ UNCHANGED <<hostMain, nextWin, store, cursorScreen, dockVars, styleVars, tabVars, detachedVars, layoutVars, splitterVars, projectVars, topVars>>

\* DockWindowContainer.closeEvent: the two statements, in source order.
ContainerCloseStepsSelfFirst == <<"super.closeEvent", "widget.close">>
ContainerCloseSteps == <<"widget.close", "super.closeEvent">>

\* One statement of DockWindowContainer.closeEvent on container d;
\* c = [wins, store, fault, containers].  widget().close() delivers the
\* contained window's closeEvent and is skipped without a widget; an
\* exception of that closeEvent leaves the container's closeEvent too.
\* The base class handler sees the contained window as it is then.
ApplyContainerStep(step, c, d) ==
    LET dc == c.containers[d]
        w  == ContainedWidget(c.wins, dc)
    IN  CASE step = "widget.close" ->
                IF w = 0 THEN c
                ELSE LET k == closeEvent([wins |-> c.wins, store |-> c.store,
                                          fault |-> c.fault], w)
                     IN  [c EXCEPT !.wins = k.wins, !.store = k.store,
                                   !.containers[d].log =
                                        IF Raised(k.wins[w])
                                            THEN Append(Append(@, step), "raise")
                                            ELSE Append(@, step)]
          [] step = "super.closeEvent" ->
                [c EXCEPT !.containers[d].log = Append(@, step),
                          !.containers[d].state = "closed",
                          !.containers[d].seen =
                              IF w = 0 THEN NoContainer.seen
                              ELSE [widget |-> w,
                                    closeLog |-> c.wins[w].closeLog,
                                    doomed |-> c.wins[w].state = "doomed",
                                    saved |-> c.store[c.wins[w].settings].geometry
                                                = SaveGeometry(c.wins[w].geom),
                                    callbacks |-> Len(c.wins[w].callbacks)]]

ContainerRaised(dc) == dc.log # <<>> /\ dc.log[Len(dc.log)] = "raise"

RECURSIVE RunContainerSteps(_, _, _)
RunContainerSteps(steps, c, d) ==
    IF steps = <<>> \/ ContainerRaised(c.containers[d]) THEN c
    ELSE RunContainerSteps(Tail(steps), ApplyContainerStep(Head(steps), c, d), d)

\* The user closes the dock of container d.
ContainerClose(d, fault) ==
    /\ d \in DOMAIN containers
    /\ containers[d].state = "open"
    /\ LET c == RunContainerSteps(ContainerCloseSteps,
                    [wins |-> wins, store |-> store, fault |-> fault,
                     containers |-> [containers EXCEPT ![d].log = <<>>]], d)
       IN  wins' = c.wins /\ store' = c.store /\ containers' = c.containers
    /\ UNCHANGED <<hostMain, nextWin, cursorScreen, lastDock, dockVars, styleVars, tabVars, detachedVars, layoutVars, splitterVars, projectVars, topVars>>

InitContainer ==
    /\ containers = <<>>
    /\ lastDock = NoDock

\* ------------------------------------------------------------------------
\* qtutils.clear_layout (qtutils.py 490-501)
\* ------------------------------------------------------------------------
\* Layout 1 is DetachPanel.main_layout; the others are created and nested by
\* the application.  An item is <<kind, id>>: a widget, a nested layout (id:
\* the layout) or a spacer (neither widget() nor layout()).
LayoutIds == 1..MaxLayouts

NoClear == [layout |-> 0, widgets |-> 0, layouts |-> {}, done |-> FALSE]

\* The layouts of the tree below layout l, l included.
RECURSIVE SubLayouts(_, _)
SubLayouts(items, l) ==
    {l} \cup UNION {SubLayouts(items, items[l][i][2]) :
                        i \in {j \in DOMAIN items[l] : items[l][j][1] = "layout"}}

\* The number of widgets the layouts in ls hold.
RECURSIVE CountWidgets(_, _)
CountWidgets(items, ls) ==
    IF ls = {} THEN 0
    ELSE LET k == CHOOSE x \in ls : TRUE
         IN  Cardinality({j \in DOMAIN items[k] : items[k][j][1] = "widget"})
                + CountWidgets(items, ls \ {k})

RECURSIVE CountItems(_, _)
CountItems(items, ls) ==
    IF ls = {} THEN 0
    ELSE LET k == CHOOSE x \in ls : TRUE
         IN  Len(items[k]) + CountItems(items, ls \ {k})

\* The layouts installed below main_layout, and the id a newly created
\* layout gets: one that no installed layout has (a layout that takeAt
\* removed from its parent is empty and out of the application's reach).
Installed == SubLayouts(litems, 1)

NewLayout == CHOOSE l \in LayoutIds \ Installed :
                \A k \in LayoutIds \ Installed : l <= k

\* The model keeps at most MaxItems items in all layouts together.
Room == CountItems(litems, Installed) < MaxItems

\* layout.addWidget(QWidget())
LayoutAddWidget(l) ==
    /\ clearStack = <<>>
    /\ l \in Installed
    /\ Room
    /\ litems' = [litems EXCEPT ![l] = Append(@, <<"widget", 0>>)]
    /\ cleared' = NoClear
    /\ scheduled' = 0
    /\ UNCHANGED <<clearStack, dockVars, winVars, styleVars, tabVars, detachedVars, containerVars, splitterVars, projectVars, topVars>>

\* layout.addLayout(QVBoxLayout())
LayoutAddLayout(l) ==
    /\ clearStack = <<>>
    /\ l \in Installed
    /\ Room
    /\ litems' = [litems EXCEPT ![l] = Append(@, <<"layout", NewLayout>>)]
    /\ cleared' = NoClear
    /\ scheduled' = 0
    /\ UNCHANGED <<clearStack, dockVars, winVars, styleVars, tabVars, detachedVars, containerVars, splitterVars, projectVars, topVars>>

\* layout.addStretch(): an item that is neither a widget nor a layout.
LayoutAddSpacer(l) ==
    /\ clearStack = <<>>
    /\ l \in Installed
    /\ Room
    /\ litems' = [litems EXCEPT ![l] = Append(@, <<"spacer", 0>>)]
    /\ cleared' = NoClear
    /\ scheduled' = 0
    /\ UNCHANGED <<clearStack, dockVars, winVars, styleVars, tabVars, detachedVars, containerVars, splitterVars, projectVars, topVars>>

\* clear_layout(layout) is called, as DetachPanel.set_widget does on
\* main_layout: the call runs to its return before anything else happens.
ClearLayout(l) ==
    /\ clearStack = <<>>
    /\ l \in Installed
    /\ clearStack' = <<l>>
    /\ scheduled' = 0
    /\ cleared' = [layout |-> l,
                   widgets |-> CountWidgets(litems, SubLayouts(litems, l)),
                   layouts |-> SubLayouts(litems, l), done |-> FALSE]
    /\ UNCHANGED <<litems, dockVars, winVars, styleVars, tabVars, detachedVars, containerVars, splitterVars, projectVars, topVars>>

\* elif child.layout() is not None: clear_layout(child.layout())
NoNestedCall(child) == <<>>
NestedCall(child) == IF child[1] = "layout" THEN <<child[2]>> ELSE <<>>

\* if child.widget() is not None: child.widget().deleteLater()
DeleteLater(child) == IF child[1] = "widget" THEN 1 ELSE 0

\* One turn of the innermost call's while loop: with items left,
\* child = layout.takeAt(0) and the widget or nested layout it holds is
\* handled; with none left the call returns to its caller's loop.
ClearStep ==
    /\ clearStack # <<>>
    /\ LET l == Head(clearStack)
       IN  IF litems[l] # <<>>
             THEN LET child == Head(litems[l])
                  IN  /\ litems' = [litems EXCEPT ![l] = Tail(@)]
                      /\ scheduled' = scheduled + DeleteLater(child)
                      /\ clearStack' = NestedCall(child) \o clearStack
                      /\ cleared' = cleared
             ELSE /\ clearStack' = Tail(clearStack)
                  /\ cleared' = [cleared EXCEPT !.done = (Len(clearStack) = 1)]
                  /\ UNCHANGED <<litems, scheduled, splitterVars, projectVars, topVars>>
    /\ UNCHANGED <<dockVars, winVars, styleVars, tabVars, detachedVars, containerVars, splitterVars, projectVars, topVars>>

InitLayout ==
    /\ litems = [l \in LayoutIds |-> <<>>]
    /\ scheduled = 0
    /\ clearStack = <<>>
    /\ cleared = NoClear

\* ------------------------------------------------------------------------
\* CollapsibleSplitter, its handle and the handle's buttons (splitter.py)
\* ------------------------------------------------------------------------
SplitterButtons == {"expand_btn", "collapse_btn"}

\* What a drag of the handle can leave the two panes at.
DragSizes == {<<1, 1>>, <<2, 1>>, <<1, 2>>}

\* emitted: the arguments of the buttonClicked emissions; signal: the
\* splitter's own signal; moved: a mouse-move event reached the button since
\* its previous release.
NoEvent ==
    [op |-> "", button |-> "", inside |-> FALSE, moved |-> FALSE,
     clicked |-> FALSE, emitted |-> <<>>, signal |-> "", forwarded |-> FALSE]

\* CollapsibleSplitterButton.__init__: self._can_emit_signal = True.  moved is
\* the history of the button's events, not a field of the object.
NewButton == [can_emit |-> TRUE, moved |-> FALSE]

\* CollapsibleSplitterHandle.__init__ before its call of expand(): both
\* buttons were made and hidden.
NewHandle ==
    [is_expanded |-> TRUE, expand_btn |-> FALSE, collapse_btn |-> FALSE,
     orientation |-> "Vertical", cursor |-> ""]

\* collapse(): the statements up to the emit.
CollapseKeepsState(h) == [h EXCEPT !.expand_btn = TRUE, !.collapse_btn = FALSE]
handle_collapse(h) ==
    [h EXCEPT !.expand_btn = TRUE, !.collapse_btn = FALSE,
              !.is_expanded = FALSE, !.cursor = "ArrowCursor"]

\* expand(): the statements up to the emit.
handle_expand(h) ==
    [h EXCEPT !.expand_btn = FALSE, !.collapse_btn = TRUE,
              !.is_expanded = TRUE,
              !.cursor = IF h.orientation = "Horizontal" THEN "SplitHCursor"
                         ELSE "SplitVCursor"]

\* The slot of a button's clickedButton signal.
ButtonSlot(b, h) == IF b = "expand_btn" THEN handle_expand(h) ELSE handle_collapse(h)

\* _on_update_splitter(expand), the slot of buttonClicked.
on_update_splitter(expand) == IF expand THEN <<1, 1>> ELSE <<1, 0>>

\* CollapsibleSplitter.expand(): handle.expand(), which emits
\* buttonClicked(True), then doExpand.
SplitterExpand ==
    /\ handle' = handle_expand(handle)
    /\ sizes' = on_update_splitter(TRUE)
    /\ lastEvent' = [NoEvent EXCEPT !.op = "expand", !.emitted = <<TRUE>>,
                                    !.signal = "doExpand"]
    /\ UNCHANGED <<buttons, dockVars, winVars, styleVars, tabVars, detachedVars, containerVars, layoutVars, projectVars, topVars>>

\* CollapsibleSplitter.collapse(): handle.collapse(), which emits
\* buttonClicked(False), then doCollapse.
SplitterCollapse ==
    /\ handle' = handle_collapse(handle)
    /\ sizes' = on_update_splitter(FALSE)
    /\ lastEvent' = [NoEvent EXCEPT !.op = "collapse", !.emitted = <<FALSE>>,
                                    !.signal = "doCollapse"]
    /\ UNCHANGED <<buttons, dockVars, winVars, styleVars, tabVars, detachedVars, containerVars, layoutVars, projectVars, topVars>>

\* QSplitter.setOrientation(o), which the application may call on the
\* splitter: the handle's orientation() follows, its cursor stays as set.
SetOrientation(o) ==
    /\ handle.orientation # o
    /\ handle' = [handle EXCEPT !.orientation = o]
    /\ lastEvent' = [NoEvent EXCEPT !.op = "orientation"]
    /\ UNCHANGED <<buttons, sizes, dockVars, winVars, styleVars, tabVars, detachedVars, containerVars, layoutVars, projectVars, topVars>>

\* CollapsibleSplitterHandle.mouseMoveEvent: handed to QSplitterHandle, which
\* drags the panes to s, only if self._is_expanded.
HandleMouseMove(s) ==
    /\ sizes' = IF handle.is_expanded THEN s ELSE sizes
    /\ lastEvent' = [NoEvent EXCEPT !.op = "handle_move",
                                    !.forwarded = handle.is_expanded]
    /\ UNCHANGED <<handle, buttons, dockVars, winVars, styleVars, tabVars, detachedVars, containerVars, layoutVars, projectVars, topVars>>

\* CollapsibleSplitterButton.mouseMoveEvent, delivered to a shown button:
\* self._can_emit_signal = False (the rest sets the icon).
ButtonMouseMove(b) ==
    /\ handle[b]
    /\ buttons' = [buttons EXCEPT ![b] = [can_emit |-> FALSE, moved |-> TRUE]]
    /\ lastEvent' = [NoEvent EXCEPT !.op = "button_move", !.button = b]
    /\ UNCHANGED <<handle, sizes, dockVars, winVars, styleVars, tabVars, detachedVars, containerVars, layoutVars, projectVars, topVars>>

\* self._can_emit_signal = True, the statement after the emit.
ReleaseKeepsFlag(flag) == flag
ReleaseSetsFlag(flag) == TRUE

\* CollapsibleSplitterButton.mouseReleaseEvent, delivered to a shown button;
\* inside: self.rect().contains(event.pos()).  clickedButton runs the
\* handle's expand or collapse, which emits buttonClicked.
ButtonMouseRelease(b, inside) ==
    /\ handle[b]
    /\ LET clicked == inside /\ buttons[b].can_emit
       IN  /\ handle' = IF clicked THEN ButtonSlot(b, handle) ELSE handle
           /\ sizes' = IF clicked THEN on_update_splitter(b = "expand_btn")
                       ELSE sizes
           /\ lastEvent' =
                [NoEvent EXCEPT !.op = "release", !.button = b,
                                !.inside = inside, !.moved = buttons[b].moved,
                                !.clicked = clicked,
                                !.emitted = IF clicked THEN <<b = "expand_btn">>
                                            ELSE <<>>]
    /\ buttons' = [buttons EXCEPT ![b] =
            [can_emit |-> ReleaseSetsFlag(buttons[b].can_emit), moved |-> FALSE]]
    /\ UNCHANGED <<dockVars, winVars, styleVars, tabVars, detachedVars, containerVars, layoutVars, projectVars, topVars>>

\* createHandle(): the handle after its __init__, which ends with expand();
\* buttonClicked is connected to the splitter after that.
InitSplitter ==
    /\ handle = handle_expand(NewHandle)
    /\ buttons = [b \in SplitterButtons |-> NewButton]
    /\ sizes = <<1, 1>>
    /\ lastEvent = [NoEvent EXCEPT !.op = "init", !.emitted = <<TRUE>>]

\* ------------------------------------------------------------------------
\* NewProjectWidget (project.py 300-403)
\* ------------------------------------------------------------------------
\* Texts of the two line edits; "/dirA" and "/dirB" are directories, "/file"
\* is a file.
PathTexts == {"", "/dirA", "/dirB", "/file"}
NameTexts == {"", "A", "B"}

\* path.is_dir(p)
is_dir(p) == p \in {"/dirA", "/dirB"}

Templates == {"T1", "T2"}
NoTemplate == "None"

\* A project is <<name, path>>; None where no project is returned.
NoProject == <<>>

NoCreate ==
    [op |-> "", path |-> "", name |-> "", template |-> NoTemplate,
     made |-> FALSE, called |-> FALSE, result |-> NoProject,
     emitted |-> <<>>, nameAfter |-> ""]

\* The user edits the project path line.
EditPath(p) ==
    /\ project_line # p
    /\ project_line' = p
    /\ UNCHANGED <<name_line, selected_template, projects, lastCreate, dockVars, winVars, styleVars, tabVars, detachedVars, containerVars, layoutVars, splitterVars, topVars>>

\* _on_directory_browsed(dir): ignored unless dir is a directory.
OnDirectoryBrowsed(dir) ==
    /\ project_line' = IF dir = "" \/ ~is_dir(dir) THEN project_line ELSE dir
    /\ project_line' # project_line
    /\ UNCHANGED <<name_line, selected_template, projects, lastCreate, dockVars, winVars, styleVars, tabVars, detachedVars, containerVars, layoutVars, splitterVars, topVars>>

\* The user edits the project name line.
EditName(n) ==
    /\ name_line # n
    /\ name_line' = n
    /\ UNCHANGED <<project_line, selected_template, projects, lastCreate, dockVars, winVars, styleVars, tabVars, detachedVars, containerVars, layoutVars, splitterVars, topVars>>

\* _on_selected_template(template)
OnSelectedTemplate(t) ==
    /\ selected_template # t
    /\ selected_template' = t
    /\ UNCHANGED <<project_line, name_line, projects, lastCreate, dockVars, winVars, styleVars, tabVars, detachedVars, containerVars, layoutVars, splitterVars, topVars>>

\* not project_path or not path.is_dir(project_path) or not project_name
InvalidPathOnly(project_path, project_name) ==
    project_path = "" \/ ~is_dir(project_path)
Invalid(project_path, project_name) ==
    project_path = "" \/ ~is_dir(project_path) \/ project_name = ""

\* _on_create(); made: the template's create_project returns a project
\* rather than None.  The two early returns come before create_project.
OnCreate(made) ==
    LET project_path == project_line
        project_name == name_line
        called  == /\ ~Invalid(project_path, project_name)
                   /\ selected_template # NoTemplate
        new_project == IF called /\ made THEN <<project_name, project_path>>
                       ELSE NoProject
    IN  /\ projects' = IF new_project # NoProject
                         THEN projects \cup {new_project} ELSE projects
        /\ name_line' = IF new_project # NoProject THEN "" ELSE name_line
        /\ lastCreate' =
                [op |-> "create", path |-> project_path, name |-> project_name,
                 template |-> selected_template, made |-> made,
                 called |-> called, result |-> new_project,
                 emitted |-> IF new_project # NoProject THEN <<new_project>>
                             ELSE <<>>,
                 nameAfter |-> name_line']
        /\ UNCHANGED <<project_line, selected_template, dockVars, winVars, styleVars, tabVars, detachedVars, containerVars, layoutVars, splitterVars, topVars>>

\* NewProjectWidget.__init__
InitProject ==
    /\ project_line = ""
    /\ name_line = ""
    /\ selected_template = NoTemplate
    /\ projects = {}
    /\ lastCreate = NoCreate

\* ------------------------------------------------------------------------
\* qtutils.get_top_level_widget (qtutils.py 824-832)
\* ------------------------------------------------------------------------
WidgetIds == 1..MaxWidgets

\* None, as a parent and as a result.
NoParent == 0

NoTop == [w |-> 0, result |-> NoParent, returned |-> FALSE]

\* get_top_level_widget(w): [result, returned].  The loop body ends with the
\* return statement: the first turn either breaks, and the function ends
\* without a return (None), or sets widget = parent and returns it.
get_top_level_widget(par, w) ==
    LET widget == w
        parent == par[widget]
    IN  IF parent = NoParent
            THEN [result |-> NoParent, returned |-> FALSE]
            ELSE [result |-> parent, returned |-> TRUE]

\* The widget reached from w by following parent() until there is none.
RECURSIVE TopMost(_, _)
TopMost(par, w) == IF par[w] = NoParent THEN w ELSE TopMost(par, par[w])

\* w.setParent(p): widgets are parented to widgets made before them, so the
\* chains are finite.
SetParent(w, p) ==
    /\ p < w
    /\ parentOf[w] # p
    /\ parentOf' = [parentOf EXCEPT ![w] = p]
    /\ lastTop' = NoTop
    /\ UNCHANGED <<dockVars, winVars, styleVars, tabVars, detachedVars, containerVars, layoutVars, splitterVars, projectVars>>

\* A call of get_top_level_widget(w).
GetTopLevelWidget(w) ==
    /\ LET got == get_top_level_widget(parentOf, w)
       IN  lastTop' = [w |-> w, result |-> got.result, returned |-> got.returned]
    /\ UNCHANGED <<parentOf, dockVars, winVars, styleVars, tabVars, detachedVars, containerVars, layoutVars, splitterVars, projectVars>>

InitTop ==
    /\ parentOf = [w \in WidgetIds |-> NoParent]
    /\ lastTop = NoTop

\* ------------------------------------------------------------------------
\* Specifications
\* ------------------------------------------------------------------------
InitDock ==
    /\ docks = <<>>
    /\ nextDock = 1
    /\ deletedWidgets = {}
    /\ lastAdd = NoAdd

InitWin ==
    /\ hostMain = TRUE
    /\ wins = [w \in 1..MaxWins |-> NoWin]
    /\ nextWin = 1
    /\ store = [h \in Handles |-> EmptyStore]
    /\ cursorScreen = 1

InitTab ==
    /\ tabBars = [b \in Bars |-> NoBar]
    /\ lastTab = NoTab

InitDetached ==
    /\ dwins = [w \in 1..MaxDetached |-> NoDetached]
    /\ qsettings = [t \in DetachedTitles |-> NoGroup]

InitStyle ==
    /\ objs = InitObjs
    /\ calls = [o \in AllObjs |-> {}]
    /\ updated = {}
    /\ reloaded = FALSE

Init == InitDock /\ InitWin /\ InitStyle /\ InitTab /\ InitDetached /\ InitTop /\ InitProject /\ InitSplitter /\ InitLayout /\ InitContainer

\* Docks of one window.
NextDock ==
    \/ \E n \in DockNames, w \in DockWidgets \cup {NoWidget}, t \in BOOLEAN :
            AddDock(n, w, t)
    \/ DockDeferredDelete

SpecDock == Init /\ [][NextDock]_vars

\* Window lifecycle: construction by name, callbacks, close, store faults.
InitLife ==
    /\ InitDock
    /\ InitStyle
    /\ InitTab
    /\ InitDetached /\ InitTop /\ InitProject /\ InitSplitter /\ InitLayout /\ InitContainer
    /\ hostMain \in BOOLEAN
    /\ wins = [w \in 1..MaxWins |-> NoWin]
    /\ nextWin = 1
    /\ store = [h \in Handles |-> EmptyStore]
    /\ cursorScreen = 1

NextLife ==
    \/ \E n \in WinNames, h \in BOOLEAN, a \in BOOLEAN,
          f \in {"ok", "raise", "corrupt"} : Construct(n, h, a, f, NoKwargs)
    \/ \E w \in 1..MaxWins, f \in {"ok", "raise"} : Close(w, f)
    \/ \E w \in 1..MaxWins : AddCallback(w, TRUE)
    \/ WinDeferredDelete

SpecLife == InitLife /\ [][NextLife]_vars

\* Geometry round trip of one window name through the store, one window at
\* a time.
UserRects ==
    {[x |-> x, y |-> 1, w |-> w, h |-> 2] :
        x \in {-1, 0, 1, ScreenW + 1}, w \in {2, ScreenW + 2}}
    \cup {[x |-> 1, y |-> y, w |-> 2, h |-> h] :
        y \in {-1, 0, ScreenH}, h \in {1, ScreenH + 1}}

NextGeom ==
    \/ /\ \A w \in 1..MaxWins : ~Exists(wins[w])
       /\ \E a \in BOOLEAN : Construct("W1", TRUE, a, "ok", NoKwargs)
    \/ \E s \in {1, 2} : MoveCursor(s)
    \/ \E w \in 1..MaxWins : Close(w, "ok")
    \/ \E w \in 1..MaxWins, r \in UserRects : MoveResize(w, r)
    \/ \E w \in 1..MaxWins : SaveSettings(w)
    \/ WinDeferredDelete

SpecGeom == Init /\ [][NextGeom]_vars

\* Theme settings of one window name through the store: the store starts
\* with or without each theme key, and changes when a dialog is accepted.

InitTheme ==
    /\ InitDock
    /\ InitStyle
    /\ InitTab
    /\ InitDetached /\ InitTop /\ InitProject /\ InitSplitter /\ InitLayout /\ InitContainer
    /\ hostMain = TRUE
    /\ wins = [w \in 1..MaxWins |-> NoWin]
    /\ nextWin = 1
    /\ \E a \in {Absent, <<230, 120, 40, 255>>}, b \in {Absent, <<68, 68, 68, 255>>} :
            store = [h \in Handles |->
                        [EmptyStore EXCEPT !.accentColor = a, !.backgroundColor = b]]
    /\ cursorScreen = 1

NextTheme ==
    \/ \E a \in BOOLEAN : Construct("W1", TRUE, a, "ok", NoKwargs)
    \/ \E w \in 1..MaxWins : Close(w, "ok")
    \/ \E w \in 1..MaxWins : ShowSettingsDialog(w)
    \/ \E w \in 1..MaxWins : SettingsAccepted(w)
    \/ WinDeferredDelete

SpecTheme == InitTheme /\ [][NextTheme]_vars

\* The settings dialog of one window at a time (the next window is opened
\* when the previous one is gone): colors picked from the dialog's palettes,
\* which hold four-channel and three-channel strings.
AccentStrings == {<<230, 80, 80, 255>>, <<230, 120, 40>>}

BackgroundStrings == {<<40, 40, 40>>}

NextDialog ==
    \/ /\ \A w \in 1..MaxWins : ~Exists(wins[w])
       /\ \E a \in BOOLEAN : Construct("W1", TRUE, a, "ok", NoKwargs)
    \/ \E w \in 1..MaxWins : Close(w, "ok")
    \/ \E w \in 1..MaxWins : ShowSettingsDialog(w)
    \/ \E w \in 1..MaxWins : DismissDialog(w)
    \/ \E w \in 1..MaxWins, a \in AccentStrings \cup {Absent},
          b \in BackgroundStrings \cup {Absent} : SettingsValidator(w, a, b)
    \/ \E w \in 1..MaxWins : SettingsAccepted(w)
    \/ WinDeferredDelete

SpecDialog == Init /\ [][NextDialog]_vars

\* Two window names over their own settings files or over one handle passed
\* as the 'settings' option.
NextShare ==
    \/ \E n \in WinNames, s \in {"", "ext"} :
            Construct(n, TRUE, TRUE, "ok", [NoKwargs EXCEPT !.settings = s])
    \/ \E w \in 1..MaxWins : Close(w, "ok")
    \/ \E w \in 1..MaxWins : SaveSettings(w)
    \/ \E w \in 1..MaxWins : ShowSettingsDialog(w)
    \/ \E w \in 1..MaxWins :
            SettingsValidator(w, <<230, 80, 80, 255>>, Absent)
    \/ \E w \in 1..MaxWins : SettingsAccepted(w)
    \/ WinDeferredDelete

SpecShare == Init /\ [][NextShare]_vars

\* The public accessors of one window at a time: dpi and theme.
DpiValues == {2, 3}

NextApi ==
    \/ /\ \A w \in 1..MaxWins : ~Exists(wins[w])
       /\ \E a \in BOOLEAN,
             k \in {NoKwargs, [NoKwargs EXCEPT !.dpi = 2],
                    [NoKwargs EXCEPT !.dip = 3]} :
                Construct("W1", TRUE, a, "ok", k)
    \/ \E w \in 1..MaxWins : Close(w, "ok")
    \/ \E w \in 1..MaxWins : ThemeAccess(w)
    \/ \E w \in 1..MaxWins, t \in CallerThemes : SetTheme(w, t)
    \/ \E w \in 1..MaxWins :
            SetThemeSettings(w, [accentColor |-> <<230, 80, 80, 255>>,
                                 backgroundColor |-> <<40, 40, 40>>])
    \/ \E w \in 1..MaxWins, d \in DpiValues : SetDpi(w, d)
    \/ WinDeferredDelete

SpecApi == Init /\ [][NextApi]_vars

\* Tab bars of tabified docks and set_active_dock_tab.
NextTab ==
    \/ \E d \in 1..MaxDocks, b \in Bars : Tabify(d, b)
    \/ \E b \in Bars, i \in 0..(MaxDocks - 1) : SelectTab(b, i)
    \/ \E d \in 1..MaxDocks : SetActiveDockTab(d)

SpecTab == Init /\ [][NextTab]_vars

\* Detached windows: construction by title, move, resize, close.
NextDetached ==
    \/ \E w \in 1..MaxDetached, t \in DetachedTitles : DetachedConstruct(w, t)
    \/ \E w \in 1..MaxDetached, x \in {0, 1} : MoveEvent(w, x, 0)
    \/ \E w \in 1..MaxDetached, width \in {2, 3} : ResizeEvent(w, width, 2)
    \/ \E w \in 1..MaxDetached : DetachedClose(w)
    \/ DetachedDeferredDelete

SpecDetached == Init /\ [][NextDetached]_vars

\* Callbacks of one window at a time: registration, removal, close with and
\* without a store that raises.
NextCallbacks ==
    \/ /\ \A w \in 1..MaxWins : ~Exists(wins[w])
       /\ \E n \in WinNames, a \in BOOLEAN : Construct(n, TRUE, a, "ok", NoKwargs)
    \/ \E w \in 1..MaxWins, v \in BOOLEAN : AddCallback(w, v)
    \/ \E w \in 1..MaxWins : RemoveCallbacks(w)
    \/ \E w \in 1..MaxWins, f \in {"ok", "raise"} : Close(w, f)
    \/ WinDeferredDelete

SpecCallbacks == Init /\ [][NextCallbacks]_vars

\* Widgets and layouts below main_layout, and reload_stylesheet().
NextStyle ==
    \/ \E o \in ObjPool, l \in AllObjs, c \in CapChoices : AddWidget(o, l, c)
    \/ \E o \in ObjPool, l \in AllObjs, c \in CapChoices : AddLayout(o, l, c)
    \/ \E o \in ObjPool, w \in AllObjs : SetLayout(o, w)
    \/ ReloadStylesheet

SpecStyle == Init /\ [][NextStyle]_vars

\* ------------------------------------------------------------------------
\* Docked windows: one window at a time, docked into a container, closed
\* through the container or directly, with and without a store that raises.
\* ------------------------------------------------------------------------
NextContainer ==
    \/ /\ \A w \in 1..MaxWins : ~Exists(wins[w])
       /\ \E n \in WinNames, a \in BOOLEAN : Construct(n, TRUE, a, "ok", NoKwargs)
    \/ \E w \in 1..MaxWins : AddCallback(w, TRUE)
    \/ \E w \in 1..MaxWins : Dock(w)
    \/ \E d \in 1..MaxContainers, f \in {"ok", "raise"} : ContainerClose(d, f)
    \/ \E w \in 1..MaxWins : Close(w, "ok")
    \/ WinDeferredDelete

SpecContainer == InitLife /\ [][NextContainer]_vars

\* ------------------------------------------------------------------------
\* Layout trees built item by item and cleared by clear_layout; a call that
\* has started keeps running its loop.
\* ------------------------------------------------------------------------
NextLayout ==
    \/ \E l \in LayoutIds : LayoutAddWidget(l)
    \/ \E l \in LayoutIds : LayoutAddLayout(l)
    \/ \E l \in LayoutIds : LayoutAddSpacer(l)
    \/ \E l \in LayoutIds : ClearLayout(l)
    \/ ClearStep

SpecLayout == Init /\ [][NextLayout]_vars /\ WF_vars(ClearStep)

\* ------------------------------------------------------------------------
\* Detached windows with the events of the time between closeEvent and the
\* deferred delete.
\* ------------------------------------------------------------------------
NextLate ==
    \/ \E w \in 1..MaxDetached, t \in DetachedTitles : DetachedConstruct(w, t)
    \/ \E w \in 1..MaxDetached, x \in {0, 1} : MoveEvent(w, x, 0)
    \/ \E w \in 1..MaxDetached, width \in {2, 3} : ResizeEvent(w, width, 2)
    \/ \E w \in 1..MaxDetached : DetachedClose(w)
    \/ \E w \in 1..MaxDetached, x \in {0, 1} : LateMoveEvent(w, x, 0)
    \/ \E w \in 1..MaxDetached, width \in {2, 3} : LateResizeEvent(w, width, 2)
    \/ \E w \in 1..MaxDetached : LateClose(w)
    \/ DetachedDeferredDelete

SpecLate == Init /\ [][NextLate]_vars

\* ------------------------------------------------------------------------
\* The theme of one window at a time and the notifications of the themes.
\* ------------------------------------------------------------------------
NextSubs ==
    \/ /\ \A w \in 1..MaxWins : ~Exists(wins[w])
       /\ \E a \in BOOLEAN : Construct("W1", TRUE, a, "ok", NoKwargs)
    \/ \E w \in 1..MaxWins, t \in CallerThemes : SetTheme(w, t)
    \/ \E w \in 1..MaxWins :
            SetThemeSettings(w, [accentColor |-> <<230, 80, 80, 255>>,
                                 backgroundColor |-> <<40, 40, 40>>])
    \/ \E w \in 1..MaxWins :
            \E t \in CallerThemes \cup {wins[w].themeObj} : ThemeUpdated(w, t)
    \/ \E w \in 1..MaxWins : Close(w, "ok")
    \/ WinDeferredDelete

SpecSubs == Init /\ [][NextSubs]_vars

\* ------------------------------------------------------------------------
\* One CollapsibleSplitter: calls of expand and collapse, drags of the
\* handle, and mouse events of the two buttons.
\* ------------------------------------------------------------------------
NextSplitter ==
    \/ SplitterExpand
    \/ SplitterCollapse
    \/ \E o \in {"Horizontal", "Vertical"} : SetOrientation(o)
    \/ \E s \in DragSizes : HandleMouseMove(s)
    \/ \E b \in SplitterButtons : ButtonMouseMove(b)
    \/ \E b \in SplitterButtons, inside \in BOOLEAN : ButtonMouseRelease(b, inside)

SpecSplitter == Init /\ [][NextSplitter]_vars

\* ------------------------------------------------------------------------
\* One NewProjectWidget: edits of the two lines, template selection, Create.
\* ------------------------------------------------------------------------
NextProject ==
    \/ \E p \in PathTexts : EditPath(p)
    \/ \E p \in PathTexts : OnDirectoryBrowsed(p)
    \/ \E n \in NameTexts : EditName(n)
    \/ \E t \in Templates : OnSelectedTemplate(t)
    \/ \E made \in BOOLEAN : OnCreate(made)

SpecProject == Init /\ [][NextProject]_vars

\* ------------------------------------------------------------------------
\* Parent chains of up to MaxWidgets widgets and get_top_level_widget.
\* ------------------------------------------------------------------------
NextTop ==
    \/ \E w \in WidgetIds, p \in WidgetIds \cup {NoParent} : SetParent(w, p)
    \/ \E w \in WidgetIds : GetTopLevelWidget(w)

SpecTop == Init /\ [][NextTop]_vars

\* ------------------------------------------------------------------------
\* Claims about the dock manager
\* ------------------------------------------------------------------------
LiveNamed(name) ==
    {i \in DOMAIN docks : docks[i].title = name /\ ~docks[i].doomed}

\* C1: add_dock(name, w2) on a window that already holds a dock with that name
\* leaves exactly one live dock with the name, whose widget is w2; every dock
\* the call tore down is closed and scheduled for deletion, and the widget it
\* held (w1) is destroyed with that container when the deferred delete is
\* delivered.
C1_AddDockReplaces ==
    lastAdd.dock # 0 =>
        /\ Cardinality(LiveNamed(lastAdd.name)) = 1
        /\ \A i \in LiveNamed(lastAdd.name) :
                docks[i].id = lastAdd.dock /\ docks[i].widget = lastAdd.widget
        /\ \A i \in DOMAIN docks :
                docks[i].id \in lastAdd.torn => docks[i].doomed /\ docks[i].closed
        /\ \A w \in lastAdd.replaced :
                \/ w \in deletedWidgets
                \/ \E i \in DOMAIN docks :
                        /\ docks[i].id \in lastAdd.torn
                        /\ docks[i].doomed
                        /\ docks[i].widget = w
        /\ (\A i \in DOMAIN docks : ~docks[i].doomed) =>
                lastAdd.replaced \subseteq deletedWidgets

\* A replacement of w1 by w2 under the same name, after the event loop ran.
C1_Witness ==
    /\ lastAdd.torn # {}
    /\ lastAdd.widget # NoWidget
    /\ lastAdd.replaced # {}
    /\ lastAdd.replaced \subseteq deletedWidgets
    /\ Len(docks) = 1

\* C2: in every reachable state no two live docks returned by get_docks()
\* share a window title.
C2_NoTwoLiveDocksShareName ==
    \A i, j \in DOMAIN get_docks :
        (/\ ~get_docks[i].doomed
         /\ ~get_docks[j].doomed
         /\ get_docks[i].title = get_docks[j].title) => i = j

\* get_docks() holds three docks of one name, two of them awaiting deletion,
\* next to a live dock of another name.
C2_Witness ==
    /\ Len(get_docks) = 4
    /\ Cardinality({i \in DOMAIN get_docks : get_docks[i].title = "A"}) = 3
    /\ Cardinality(LiveNamed("A")) = 1
    /\ Cardinality(LiveNamed("B")) = 1

\* C3: with tabify true the new dock is tabified with the most recently added
\* dock that stays live after the call, never with a dock the call tears
\* down, and with no such other dock no tabify happens.
C3_TabifyMostRecentOther ==
    (lastAdd.dock # 0 /\ lastAdd.tabify) =>
        /\ Len(lastAdd.stayed) > 0 =>
                lastAdd.tabbedOn = lastAdd.stayed[Len(lastAdd.stayed)].id
        /\ lastAdd.tabbedOn \notin lastAdd.torn
        /\ Len(lastAdd.stayed) = 0 => lastAdd.tabbedOn = 0

\* ------------------------------------------------------------------------
\* Claims about the window lifecycle
\* ------------------------------------------------------------------------
\* C4: closing a MainWindow runs save_settings, remove_callbacks, the
\* windowClosed emission and deleteLater in this order, so an observer of
\* windowClosed sees the settings saved and no callback registered.
C4_CloseOrder ==
    \A w \in DOMAIN wins :
        wins[w].state = "doomed" =>
            /\ wins[w].closeLog =
                <<"save_settings", "remove_callbacks", "windowClosed", "deleteLater">>
            /\ wins[w].seen.saved
            /\ wins[w].seen.callbacks = 0

\* A window that held callbacks when it was closed.
C4_Witness ==
    \E w \in DOMAIN wins :
        /\ wins[w].state = "doomed"
        /\ wins[w].seen.had = MaxCallbacks
        /\ wins[w].callbacks = <<>>
        /\ store[wins[w].settings].geometry = SaveGeometry(wins[w].geom)

\* C5: after any sequence of constructions at most one live MainWindow exists
\* per name, also without a host main window and for windows that are not
\* below the host main window.
C5_OneLivePerName ==
    \A a, b \in DOMAIN wins :
        (/\ wins[a].state = "live"
         /\ wins[b].state = "live"
         /\ wins[a].name = wins[b].name) => a = b

\* C10: construction never fails because of the settings store: no
\* MainWindow.__init__ ends by raising.
C10_ConstructionNeverRaises ==
    \A w \in DOMAIN wins : wins[w].state # "raised"

\* C11: a failure to write the settings during close is not fatal: when
\* save_settings raises, closeEvent still releases the callbacks, emits
\* windowClosed and disposes the window.
C11_CloseSurvivesSaveFailure ==
    \A w \in DOMAIN wins :
        (Exists(wins[w]) /\ "raise" \in Range(wins[w].closeLog)) =>
            /\ wins[w].callbacks = <<>>
            /\ "windowClosed" \in Range(wins[w].closeLog)
            /\ wins[w].state = "doomed"

\* ------------------------------------------------------------------------
\* Claims about loading settings
\* ------------------------------------------------------------------------
\* A step that constructs a window with auto_load: the new window is
\* wins'[nextWin], and store' is the store its load() read.
LoadStep == nextWin' = nextWin + 1 /\ wins'[nextWin].loaded

Inside(r, scr) ==
    /\ r.x >= scr.x
    /\ r.y >= scr.y
    /\ r.x + r.w <= scr.x + scr.w
    /\ r.y + r.h <= scr.y + scr.h

\* No part of the rectangle is on the primary screen.
FullyOutside(r) ==
    \/ r.x >= ScreenW
    \/ r.y >= ScreenH
    \/ r.x + r.w <= 0
    \/ r.y + r.h <= 0

StoredRect(bytes) ==
    [x |-> bytes[2], y |-> bytes[3], w |-> bytes[4], h |-> bytes[5]]

\* C6: a window constructed over a store that holds a geometry saved by
\* save_settings gets exactly that geometry, also when its x or y is 0 or
\* negative (stored positions at or beyond the right or bottom screen edge,
\* which load() is meant to re-centre, are left out).
C6_GeometryRoundTrip ==
    [][(LoadStep /\ CanRestore(store'[wins'[nextWin].settings].geometry)) =>
            LET g == StoredRect(store'[wins'[nextWin].settings].geometry)
            IN  (g.x < ScreenW /\ g.y < ScreenH) => wins'[nextWin].geom = g]_vars

\* C7 as claimed: a stored geometry fully outside the screen is re-centred
\* into the bounds of the screen, for every stored width and height.
C7_RecenteredInsideScreen ==
    [][(LoadStep /\ CanRestore(store'[wins'[nextWin].settings].geometry)) =>
            LET g == StoredRect(store'[wins'[nextWin].settings].geometry)
            IN  FullyOutside(g) =>
                    Inside(wins'[nextWin].geom, ScreenGeometry(cursorScreen))]_vars

\* C7 as amended: a stored geometry fully outside the primary screen is
\* re-centred on the screen under the cursor with its stored size, and lies
\* fully inside that screen whenever its width and height do not exceed the
\* screen's.
C7_RecenteredInsideWhenFits ==
    [][(LoadStep /\ CanRestore(store'[wins'[nextWin].settings].geometry)) =>
            LET g   == StoredRect(store'[wins'[nextWin].settings].geometry)
                scr == ScreenGeometry(cursorScreen)
                new == wins'[nextWin].geom
            IN  FullyOutside(g) =>
                    /\ new.w = g.w /\ new.h = g.h
                    /\ (g.w <= scr.w /\ g.h <= scr.h) => Inside(new, scr)]_vars

\* A window just loaded from a store whose geometry is beyond the right edge
\* of the primary screen, re-centred on the second screen.
C7_Witness ==
    \E w \in DOMAIN wins :
        /\ wins[w].state = "live" /\ wins[w].loaded
        /\ cursorScreen = 2
        /\ CanRestore(store[wins[w].settings].geometry)
        /\ FullyOutside(StoredRect(store[wins[w].settings].geometry))
        /\ StoredRect(store[wins[w].settings].geometry).w <= SecondScreen.w
        /\ wins[w].geom # StoredRect(store[wins[w].settings].geometry)
        /\ wins[w].geom.w = StoredRect(store[wins[w].settings].geometry).w
        /\ Inside(wins[w].geom, SecondScreen)

\* C9: on load the keys theme/accentColor and theme/backgroundColor are
\* resolved independently, the stored value when present and otherwise
\* "rgb(0, 175, 240, 255)" / "rgb(60, 64, 79, 255)"; over an empty store both
\* defaults apply and the window keeps its default placement, which is not
\* outside the screen.
C9_ThemeKeysIndependent ==
    [][LoadStep =>
            LET st  == store'[wins'[nextWin].settings]
                win == wins'[nextWin]
            IN  /\ win.accent = ColorFromString(
                        IF st.accentColor # Absent THEN st.accentColor
                        ELSE <<0, 175, 240, 255>>)
                /\ win.background = ColorFromString(
                        IF st.backgroundColor # Absent THEN st.backgroundColor
                        ELSE <<60, 64, 79, 255>>)
                /\ st = EmptyStore =>
                        /\ win.accent = [r |-> 0, g |-> 175, b |-> 240, a |-> 255]
                        /\ win.background = [r |-> 60, g |-> 64, b |-> 79, a |-> 255]
                        /\ win.geom = DefaultGeom
                        /\ ~FullyOutside(win.geom)]_vars

\* A window loaded from a store that holds an accent color and no background
\* color: the stored accent next to the default background.
C9_Witness ==
    \E w \in DOMAIN wins :
        /\ wins[w].state = "live" /\ wins[w].loaded
        /\ store[wins[w].settings].accentColor # Absent
        /\ store[wins[w].settings].backgroundColor = Absent
        /\ wins[w].accent = ColorFromString(store[wins[w].settings].accentColor)
        /\ wins[w].background = [r |-> 60, g |-> 64, b |-> 79, a |-> 255]

\* ------------------------------------------------------------------------
\* Claims about reload_stylesheet
\* ------------------------------------------------------------------------
\* The widgets below the window: all of them sit below main_widget.
AllDescendantWidgets(tree) ==
    {o \in FindChildrenOf(tree, "main_widget") : tree[o].kind = "widget"}

\* C8: after reload_stylesheet() every descendant widget of the window has
\* received each of the five color setters it exposes, with the matching
\* theme color, and a descendant that exposes none has received no call.
C8_SettersOnEveryDescendant ==
    reloaded =>
        \A o \in AllDescendantWidgets(objs) :
            /\ \A s \in objs[o].caps \cap Setters : <<s, SetterOption(s)>> \in calls[o]
            /\ objs[o].caps \cap Setters = {} => calls[o] = {}

\* The setter calls that capable descendant widgets have not received.
OutstandingCalls ==
    {<<o, s>> \in AllDescendantWidgets(objs) \X Setters :
        s \in objs[o].caps /\ <<s, SetterOption(s)>> \notin calls[o]}

\* C15: theme-update notification is synchronous: when reload_stylesheet()
\* (alone or at the end of set_theme) returns, no color-setter call on a
\* capable descendant is outstanding for a later event, and every capable
\* descendant has been asked to repaint.
C15_NothingLeftPending ==
    reloaded =>
        /\ OutstandingCalls = {}
        /\ \A o \in AllDescendantWidgets(objs) :
                objs[o].caps \cap Setters # {} => o \in updated

\* ------------------------------------------------------------------------
\* Claims about the settings dialog
\* ------------------------------------------------------------------------
\* A step that closes window w (its closeEvent ran to deleteLater) while its
\* settings dialog was opened and never accepted.
ClosedUnaccepted(w) ==
    /\ wins[w].state = "live"
    /\ wins'[w].state = "doomed"
    /\ wins[w].dialog.status \in {"open", "dismissed"}

\* C12: theme edits made in a settings dialog that is never accepted are
\* discarded: when the window is closed after the validator ran and before
\* the accepted handler ran, the window's theme colors and the stored
\* theme/accentColor and theme/backgroundColor are those of the moment the
\* dialog was opened.
C12_UnacceptedEditsDiscarded ==
    [][\A w \in DOMAIN wins :
            ClosedUnaccepted(w) =>
                /\ ColorToString(wins'[w].accent) = wins[w].dialog.accent
                /\ ColorToString(wins'[w].background) = wins[w].dialog.background
                /\ store'[wins[w].settings].accentColor = wins[w].dialog.stAccent
                /\ store'[wins[w].settings].backgroundColor
                        = wins[w].dialog.stBackground]_vars

\* A step that closes window w after its theme colors were changed through
\* the settings dialog.
ClosedAfterThemeEdit(w) ==
    /\ wins[w].state = "live"
    /\ wins'[w].state = "doomed"
    /\ wins[w].dialog.status # "none"
    /\ \/ ColorToString(wins[w].accent) # wins[w].dialog.accent
       \/ ColorToString(wins[w].background) # wins[w].dialog.background

\* C13: when a window closes after its theme options received new values,
\* the close leaves theme/accentColor and theme/backgroundColor of the store
\* holding the theme's current colors.
C13_ClosePersistsTheme ==
    [][\A w \in DOMAIN wins :
            ClosedAfterThemeEdit(w) =>
                /\ store'[wins[w].settings].accentColor
                        = ColorToString(wins'[w].accent)
                /\ store'[wins[w].settings].backgroundColor
                        = ColorToString(wins'[w].background)]_vars

\* ------------------------------------------------------------------------
\* Claims about windows that share a settings store
\* ------------------------------------------------------------------------
\* C14: windows of different names that use the same settings store never
\* collide on keys: a value one window stored is changed only by a write of
\* that window, also when the store is shared through the 'settings' option.
C14_NoKeyCollision ==
    [][\A h \in Handles :
            /\ (store[h].geometryBy # "" /\ store'[h].geometry # store[h].geometry)
                    => store'[h].geometryBy = store[h].geometryBy
            /\ (/\ store[h].themeBy # ""
                /\ \/ store'[h].accentColor # store[h].accentColor
                   \/ store'[h].backgroundColor # store[h].backgroundColor)
                    => store'[h].themeBy = store[h].themeBy]_vars

\* ------------------------------------------------------------------------
\* Claims about the theme and dpi accessors
\* ------------------------------------------------------------------------
\* C16: theme() never returns nothing: without a theme the call creates one,
\* with a theme it returns that instance, so later calls return the same one;
\* after set_theme(t) the window's theme is t, and a theme once held is only
\* replaced by set_theme or set_theme_settings.
C16_ThemeAccessor ==
    [][\A w \in DOMAIN wins :
            (wins[w].state = "live" /\ wins'[w].state = "live"
                    /\ wins'[w] # wins[w]) =>
                /\ wins'[w].lastOp.op = "theme" =>
                        /\ wins'[w].lastOp.theme # NoTheme
                        /\ wins'[w].lastOp.theme = wins'[w].themeObj
                        /\ wins[w].themeObj # NoTheme =>
                                wins'[w].lastOp.theme = wins[w].themeObj
                /\ wins'[w].lastOp.op = "set_theme" =>
                        wins'[w].themeObj = wins'[w].lastOp.theme
                /\ (wins[w].themeObj # NoTheme
                        /\ wins'[w].themeObj # wins[w].themeObj) =>
                        wins'[w].lastOp.op \in {"set_theme", "set_theme_settings"}]_vars

\* theme() has returned the theme a caller passed to set_theme before.
C16_Witness ==
    \E w \in DOMAIN wins :
        /\ wins[w].state = "live"
        /\ wins[w].lastOp.op = "theme"
        /\ wins[w].lastOp.theme \in CallerThemes
        /\ wins[w].themeObj = wins[w].lastOp.theme

\* C17: the 'dpi' construction option sets the initial scale: a window
\* constructed with dpi=d reports d, one constructed without reports 1.0, and
\* after set_dpi(d) the window reports d.
C17_DpiOption ==
    [][\A w \in DOMAIN wins :
            /\ (wins[w].state = "none" /\ wins'[w].state = "live") =>
                    wins'[w].dpi = IF wins'[w].kwargs.dpi # 0
                                        THEN wins'[w].kwargs.dpi ELSE 1
            /\ (wins'[w].state = "live" /\ wins'[w].lastOp # wins[w].lastOp
                    /\ wins'[w].lastOp.op = "set_dpi") =>
                    wins'[w].dpi = wins'[w].lastOp.dpi]_vars

\* ------------------------------------------------------------------------
\* Claims about set_active_dock_tab
\* ------------------------------------------------------------------------
\* The position of the dock among the tabs of a bar, counted from 0.
TabIndexOf(bar, dock) ==
    CHOOSE i \in 0..(Len(bar.tabs) - 1) : bar.tabs[i + 1] = dock

\* C18: set_active_dock_tab(dock) makes the dock's tab the current one of the
\* tab bar that contains the dock and changes no other tab bar; with the dock
\* in no tab bar nothing changes.
C18_SelectsOnlyOwnBar ==
    lastTab.dock # 0 =>
        \A b \in Bars :
            IF lastTab.dock \in Range(lastTab.before[b].tabs)
                THEN /\ tabBars[b].tabs = lastTab.before[b].tabs
                     /\ tabBars[b].current = TabIndexOf(tabBars[b], lastTab.dock)
                ELSE tabBars[b] = lastTab.before[b]

\* The call moved the current tab of one bar while another bar, whose current
\* tab is not its first one, kept its own.
C18_Witness ==
    \E b, c \in Bars :
        /\ b # c
        /\ lastTab.dock \in Range(lastTab.before[b].tabs)
        /\ tabBars[b].current # lastTab.before[b].current
        /\ tabBars[c].current > 0

\* ------------------------------------------------------------------------
\* Claims about DetachedWindow
\* ------------------------------------------------------------------------
\* C19: after every move event and every resize event of a DetachedWindow the
\* settings group named by its title holds detached = True and the geometry
\* and window state of that moment, and a group changes only by an event of
\* a window of that title, so windows of different titles never overwrite
\* each other's group.
C19_GroupFollowsGeometry ==
    [][/\ \A w \in DOMAIN dwins :
            (/\ dwins[w].state = "live"
             /\ dwins'[w].state = "live"
             /\ dwins'[w].geom # dwins[w].geom) =>
                qsettings'[dwins[w].title] =
                    [detached |-> <<TRUE>>,
                     geometry |-> <<"QtGeometry", dwins'[w].geom.x, dwins'[w].geom.y,
                                    dwins'[w].geom.w, dwins'[w].geom.h>>,
                     windowstate |-> <<"QtState">>]
       /\ \A t \in DetachedTitles :
            qsettings'[t] # qsettings[t] =>
                \E w \in DOMAIN dwins :
                    dwins[w].title = t /\ dwins'[w] # dwins[w]]_vars

\* Two live detached windows of different titles, each group holding its own
\* window's geometry, which differ.
C19_Witness ==
    \E a, b \in DOMAIN dwins :
        /\ dwins[a].state = "live" /\ dwins[b].state = "live"
        /\ dwins[a].title # dwins[b].title
        /\ dwins[a].geom # dwins[b].geom
        /\ qsettings[dwins[a].title].detached = <<TRUE>>
        /\ qsettings[dwins[b].title].detached = <<TRUE>>
        /\ qsettings[dwins[a].title].geometry = SaveGeometry(dwins[a].geom)
        /\ qsettings[dwins[b].title].geometry = SaveGeometry(dwins[b].geom)

\* ------------------------------------------------------------------------
\* Claims about the settings validator
\* ------------------------------------------------------------------------
\* A step in which the open dialog of window w calls _settings_validator; the
\* color strings passed are in wins'[w].lastOp.
ValidatorStep(w) ==
    /\ wins[w].state = "live" /\ wins'[w].state = "live"
    /\ wins[w].dialog.status = "open" /\ wins'[w].dialog = wins[w].dialog
    /\ wins'[w].lastOp.op = "settings_validator"
    /\ wins'[w] # wins[w]

\* The four-channel form of a color string: a missing alpha is 255.
FourChannel(c) == <<c[1], c[2], c[3], IF Len(c) = 4 THEN c[4] ELSE 255>>

C21_EveryCallbackRemoved ==
    [][\A w \in DOMAIN wins :
            /\ (Exists(wins'[w]) /\ wins'[w].removal # wins[w].removal) =>
                    /\ wins'[w].removal.removed = Range(wins'[w].removal.had)
                    /\ wins'[w].callbacks = <<>>
            /\ (/\ wins'[w].state = "live"
                /\ wins'[w].lastOp # wins[w].lastOp
                /\ wins'[w].lastOp.op = "add_callback_rejected") =>
                    wins'[w].callbacks = wins[w].callbacks]_vars

\* ------------------------------------------------------------------------
\* Claims about docked windows
\* ------------------------------------------------------------------------

\* C22: a DockWindowContainer whose close handling has run closed its
\* contained widget first: when the base class handler ran, the contained
\* MainWindow had gone through its whole closeEvent (settings saved,
\* callbacks released, windowClosed emitted, deletion scheduled); a container
\* without a widget ran the base class handler only.
C22_WidgetClosedFirst ==
    \A d \in DOMAIN containers :
        containers[d].state = "closed" =>
            LET dc == containers[d]
            IN  IF dc.seen.widget # 0
                    THEN /\ dc.log = <<"widget.close", "super.closeEvent">>
                         /\ dc.seen.closeLog = CloseSteps
                         /\ dc.seen.doomed
                         /\ dc.seen.saved
                         /\ dc.seen.callbacks = 0
                    ELSE dc.log = <<"super.closeEvent">>

\* One container was closed with its window, one after its window was gone.
C22_Witness ==
    \E d, e \in DOMAIN containers :
        /\ containers[d].state = "closed" /\ containers[d].seen.widget # 0
        /\ containers[e].state = "closed" /\ containers[e].seen.widget = 0
        /\ containers[e].widget # 0

\* C30: every dock() call completes without raising, with the window in a
\* container titled with the window title, the container in the host main
\* window's left area and the title dragger hidden.
C30_DockCompletes ==
    lastDock.win # 0 =>
        /\ lastDock.raised = ""
        /\ containers[lastDock.container].title = windowTitle(wins[lastDock.win])
        /\ containers[lastDock.container].area = "left"
        /\ ~lastDock.titleVisible

\* ------------------------------------------------------------------------
\* Claims about clear_layout
\* ------------------------------------------------------------------------

\* What a clear_layout call that returned has left behind: the layout and
\* every layout that was nested below it have no items, and every widget
\* they held was scheduled for deletion.
Emptied ==
    /\ \A l \in cleared.layouts : Len(litems[l]) = 0
    /\ scheduled = cleared.widgets

\* C23: every clear_layout call on a finite layout tree returns, and when it
\* has returned layout.count() is 0, every widget the layout held is
\* scheduled for deletion and every nested layout is empty too.
C23_ClearLayoutEmpties ==
    /\ [](cleared.done => Emptied)
    /\ (clearStack # <<>>) ~> (cleared.done /\ clearStack = <<>>)

\* A returned call on a layout that held a widget, a spacer and a nested
\* layout with a widget of its own.
C23_Witness ==
    /\ cleared.done
    /\ Cardinality(cleared.layouts) >= 2
    /\ cleared.widgets >= 2
    /\ scheduled = cleared.widgets

\* ------------------------------------------------------------------------
\* Claims about closed detached windows
\* ------------------------------------------------------------------------

\* C24: while a DetachedWindow that handled its close event waits for its
\* deferred delete, the 'detached' key of its settings group is False,
\* whatever move and resize events it is delivered, and windowClosed was
\* emitted once, with the window as argument.
C24_ClosedStaysUndetached ==
    \A w \in DOMAIN dwins :
        dwins[w].state = "doomed" =>
            /\ qsettings[SettingGroup(dwins[w].title)].detached = QVariant(FALSE)
            /\ dwins[w].emitted = <<w>>

\* ------------------------------------------------------------------------
\* Claims about theme notifications
\* ------------------------------------------------------------------------

\* C25: a window that was given a theme by set_theme, set_theme_settings or
\* load has reload_stylesheet connected once, to the updated signal of its
\* current theme and to no other: a notification of the current theme makes
\* one reload, one of a replaced theme makes none.
C25_SubscribedOnce ==
    \A w \in DOMAIN wins :
        (wins[w].state = "live" /\ wins[w].subs # <<>>) =>
            /\ wins[w].subs = <<wins[w].themeObj>>
            /\ wins[w].lastOp.op = "theme_updated" =>
                    wins[w].lastOp.reloads =
                        IF wins[w].lastOp.theme = wins[w].themeObj THEN 1 ELSE 0

\* ------------------------------------------------------------------------
\* Claims about the collapsible splitter
\* ------------------------------------------------------------------------

\* C26: in a CollapsibleSplitterHandle exactly one button is set visible,
\* the collapse button iff _is_expanded and the expand button iff not; every
\* expand() and collapse() emits buttonClicked once with the new state, and
\* a mouse-move event of the handle is forwarded iff the handle is expanded.
C26_OneButtonVisible ==
    /\ handle.collapse_btn = handle.is_expanded
    /\ handle.expand_btn = ~handle.is_expanded
    /\ (lastEvent.op \in {"init", "expand", "collapse"} \/ lastEvent.clicked) =>
            lastEvent.emitted = <<handle.is_expanded>>
    /\ lastEvent.op = "expand" => handle.is_expanded
    /\ lastEvent.op = "collapse" => ~handle.is_expanded
    /\ lastEvent.op = "handle_move" => lastEvent.forwarded = handle.is_expanded

\* A collapsed handle whose drag was not forwarded.
C26_Witness ==
    /\ ~handle.is_expanded
    /\ handle.expand_btn
    /\ lastEvent.op = "handle_move"
    /\ ~lastEvent.forwarded

\* C27: a release on a CollapsibleSplitterButton emits clickedButton iff its
\* position is inside the button and no mouse-move event reached the button
\* since its previous release, and after every release the button can emit
\* again: the flag is down only while a move waits for its release.
C27_DragIsNoClick ==
    /\ lastEvent.op = "release" =>
            /\ lastEvent.clicked = (lastEvent.inside /\ ~lastEvent.moved)
            /\ buttons[lastEvent.button].can_emit
    /\ \A b \in SplitterButtons : buttons[b].can_emit = ~buttons[b].moved

\* A release inside the button after a drag: no click, and the button can
\* emit again.
C27_Witness ==
    /\ lastEvent.op = "release"
    /\ lastEvent.inside
    /\ lastEvent.moved
    /\ ~lastEvent.clicked
    /\ buttons[lastEvent.button].can_emit

\* ------------------------------------------------------------------------
\* Claims about NewProjectWidget
\* ------------------------------------------------------------------------

\* C29: _on_create with an empty or non-directory project path, an empty
\* project name or no selected template does not call the template, emits
\* nothing and returns None; with a template that creates a project it emits
\* projectCreated once with that project, clears the name line and returns
\* the project; with a template that returns None it emits nothing and
\* keeps the name line.
C29_CreateChecksInput ==
    lastCreate.op = "create" =>
        IF \/ lastCreate.path = ""
           \/ ~is_dir(lastCreate.path)
           \/ lastCreate.name = ""
           \/ lastCreate.template = NoTemplate
          THEN /\ ~lastCreate.called
               /\ lastCreate.emitted = <<>>
               /\ lastCreate.result = NoProject
               /\ lastCreate.nameAfter = lastCreate.name
          ELSE /\ lastCreate.called
               /\ IF lastCreate.made
                    THEN /\ lastCreate.result = <<lastCreate.name, lastCreate.path>>
                         /\ lastCreate.emitted = <<lastCreate.result>>
                         /\ lastCreate.result \in projects
                         /\ lastCreate.nameAfter = ""
                    ELSE /\ lastCreate.result = NoProject
                         /\ lastCreate.emitted = <<>>
                         /\ lastCreate.nameAfter = lastCreate.name

\* A project was created, and a later Create with the name line left empty
\* by it was turned down although the template would have made a project.
C29_Witness ==
    /\ projects # {}
    /\ lastCreate.op = "create"
    /\ lastCreate.made
    /\ lastCreate.name = ""
    /\ is_dir(lastCreate.path)
    /\ lastCreate.template # NoTemplate
    /\ ~lastCreate.called

\* ------------------------------------------------------------------------
\* Claims about get_top_level_widget
\* ------------------------------------------------------------------------

\* C28: get_top_level_widget(w) returns the topmost ancestor of w, whatever
\* the length of w's parent chain, and w itself when w has no parent.
C28_ReturnsTopmost ==
    lastTop.w # 0 =>
        /\ lastTop.returned
        /\ lastTop.result = TopMost(parentOf, lastTop.w)

====
